---- MODULE Spec2Model ----
(***************************************************************************)
(* Job orchestration of the SEO recovery platform (src/app/main.py).       *)
(*                                                                         *)
(* One background worker thread per job runs run_analysis_job ->           *)
(* perform_analysis; the FastAPI event loop runs the request handlers      *)
(* analyze_start, analyze_cancel and analyze_status one at a time (they    *)
(* are coroutines without an await between their first and last access of  *)
(* the shared tables).  JOBS and RESULTS are the shared tables, STATE_LOCK *)
(* the threading.Lock.  A job record is a Python dict that update_job and  *)
(* analyze_cancel mutate in place, so JOBS[id] below is the live object.   *)
(*                                                                         *)
(* Jobs share nothing but STATE_LOCK and the clock, so the model follows   *)
(* one issued job id and one id that was never issued.                     *)
(***************************************************************************)
EXTENDS Integers, Sequences, FiniteSets, TLC

VARIABLES
    FEATURE_FLAGS,  \* the process-wide feature flags, fixed at import
    JOBS,           \* job id -> live job record, or NoJob
    RESULTS,        \* job id -> stored result package, or NoResult
    STATE_LOCK,     \* holder of the lock: Free, or the job id of a worker
    now,            \* time.time() as last read, in whole seconds
    pc,             \* job id -> position of its worker thread
    phase,          \* job id -> step inside progress() / update_job()
    args,           \* job id -> arguments of perform_analysis
    loc,            \* job id -> locals of perform_analysis
    exc,            \* job id -> the exception run_analysis_job is handling
    loop,           \* the event loop: idle, or inside analyze_status
    pool,           \* job id -> audit_single_url calls submitted and not yet returned
    call,           \* a call of a service function on its own: arguments and result
    out,            \* the reply sent by the step just taken, or NoReply
    committed,      \* job id -> the record as it stood at the last lock release
    hist            \* job id -> what has happened to the job so far

vars == <<FEATURE_FLAGS, JOBS, RESULTS, STATE_LOCK, now, pc, phase, args, loc,
          exc, loop, pool, call, out, committed, hist>>

\* the state of the web application, that is all but a service call on its own
server_vars == <<FEATURE_FLAGS, JOBS, RESULTS, STATE_LOCK, now, pc, phase, args, loc,
                 exc, loop, pool, out, committed, hist>>

----------------------------------------------------------------------------
(* Bounds and program constants *)

MaxTime == 3        \* the clock runs from 1 to MaxTime
MaxUrls == 41       \* the largest number of URLs a parse or a crawl yields
MaxFetches == 2     \* the largest number of distinct URLs in one audit batch

batch_size == 40
audit_cap_max == 500
crawl_cap_min == 10
crawl_cap_max == 2000
NoneEta == -1       \* "eta_seconds": None

JobIds == {"job1"}              \* ids issued by analyze_start (uuid4)
AllIds == JobIds \cup {"nojob"} \* plus an id that was never issued

Free == "free"
NoJob == [status |-> "absent"]
NoResult == [stored |-> FALSE]
NoReply == [op |-> "none"]
NoCall == [fn |-> "none"]
NoExc == [kind |-> "none"]
NoArgs == [has_old_file |-> FALSE, has_new_file |-> FALSE, site_url |-> FALSE,
           run_audit |-> FALSE, audit_limit |-> 0, crawl_site |-> FALSE]
NoLoc == [analysis_mode |-> "migration", run_audit |-> FALSE, n_old |-> 0,
          n_new |-> 0, idx |-> 0, audit_results |-> 0]
NoHist == [matched |-> FALSE, audit_calls |-> 0, batches_done |-> 0,
           robots_calls |-> 0, robots_done |-> FALSE, compared |-> FALSE,
           packaged |-> FALSE, result_writes |-> 0, cancel_early |-> FALSE,
           stopped_at |-> "", failed |-> "", read_at |-> 0, updates |-> 0,
           run_audit |-> FALSE, cancel_batch |-> 0, cancel_late |-> FALSE]

UrlCounts == {0, 1, MaxUrls}
AuditLimits == {1, 150}
LogIds == {"a1b2c3d4", "e5f6a7b8"}      \* str(uuid4())[:8]
Terminal == {"done", "error", "cancelled"}

Max(a, b) == IF a >= b THEN a ELSE b
Min(a, b) == IF a <= b THEN a ELSE b

----------------------------------------------------------------------------
(* AppError (main.py 53-66) *)

\* AppError(user_message, details) with the log id uuid4 gave it
AppError(user_message, details, log_id) ==
    [kind |-> "AppError", user_message |-> user_message, details |-> details,
     log_id |-> log_id]

\* to_status_error with the details appended, as to_lines has them
to_status_error_with_details(e) ==
    <<e.user_message, " (Hata kodu: ", e.log_id, ")">> \o e.details

\* to_status_error with the message left out
to_status_error_empty(e) == << >>

\* AppError.to_status_error: "<user_message> (Hata kodu: <log_id>)"
to_status_error(e) == <<e.user_message, " (Hata kodu: ", e.log_id, ")">>

JobCancelled == [kind |-> "JobCancelled", text |-> ""]

\* an exception that is neither AppError nor JobCancelled; text is str(exc)
OtherException(text) == [kind |-> "Exception", text |-> text]

ExcTexts == {"Invalid IPv6 URL", "field larger than field limit"}

----------------------------------------------------------------------------
(* update_job and check_cancel (main.py 326-346) *)

\* current.update(kwargs)
dict_update(current, kwargs) ==
    [f \in DOMAIN current |-> IF f \in DOMAIN kwargs THEN kwargs[f] ELSE current[f]]

\* int((elapsed / progress) * (100 - progress)), elapsed = max(1.0, t - started)
eta_of(started, t, progress) ==
    LET elapsed == Max(1, t - started)
    IN  (elapsed * (100 - progress)) \div progress

\* update_job's eta without the max(1, eta) of line 335
update_job_eta_no_floor(current, t) ==
    IF current.started_epoch > 0 /\ 0 < current.progress /\ current.progress < 100
       /\ current.status = "running"
    THEN [current EXCEPT !.eta_seconds = eta_of(current.started_epoch, t, current.progress)]
    ELSE IF current.progress >= 100
         THEN [current EXCEPT !.eta_seconds = 0]
         ELSE current

\* lines 330-337 of update_job: the record after the eta_seconds assignment
update_job_eta(current, t) ==
    IF current.started_epoch > 0 /\ 0 < current.progress /\ current.progress < 100
       /\ current.status = "running"
    THEN [current EXCEPT !.eta_seconds = Max(1, eta_of(current.started_epoch, t, current.progress))]
    ELSE IF current.progress >= 100
         THEN [current EXCEPT !.eta_seconds = 0]
         ELSE current

\* check_cancel's test: bool(job.get("cancel_requested")) and FEATURE_FLAGS["CANCEL_JOB"]
cancel_requested_now(id) ==
    JOBS[id] # NoJob /\ JOBS[id].cancel_requested /\ FEATURE_FLAGS.CANCEL_JOB

----------------------------------------------------------------------------
(* Positions of the worker thread in perform_analysis (main.py 349-467) *)

ProgressPcs == {"progress10", "progress20", "progress45", "progress70",
                "progress_batch", "progress90"}
CancelPcs == {"cancel20", "cancel45", "cancel_batch", "cancel_robots", "cancel90"}
UpdatePcs == {"update_done", "update_cancelled", "update_error"}

\* len(urls), urls = [row["url"] for row in new_rows][:cap], cap = max(1, min(audit_limit, 500))
len_urls(id) == Min(loc[id].n_new, Max(1, Min(args[id].audit_limit, audit_cap_max)))

\* len(batch), batch = urls[idx : idx + batch_size]
len_batch(id) == Min(batch_size, len_urls(id) - loc[id].idx)

\* the percent arguments with line 436 counting the share of the batches from 0
percent_of_share_only(id) ==
    CASE pc[id] = "progress10" -> 10
      [] pc[id] = "progress20" -> 20
      [] pc[id] = "progress45" -> 45
      [] pc[id] = "progress70" -> 70
      [] pc[id] = "progress_batch" ->
            Min(88, ((loc[id].idx + len_batch(id)) * 15) \div Max(1, len_urls(id)))
      [] pc[id] = "progress90" -> 90

\* the percent argument of each progress() call
percent_of(id) ==
    CASE pc[id] = "progress10" -> 10
      [] pc[id] = "progress20" -> 20
      [] pc[id] = "progress45" -> 45
      [] pc[id] = "progress70" -> 70
      [] pc[id] = "progress_batch" ->
            Min(88, 70 + (((loc[id].idx + len_batch(id)) * 15) \div Max(1, len_urls(id))))
      [] pc[id] = "progress90" -> 90

message_of(id) ==
    CASE pc[id] = "progress10" -> "Girdi dosyalari okunuyor."
      [] pc[id] = "progress20" -> "Site URL'leri bulunuyor (sitemap + ic link taramasi)."
      [] pc[id] = "progress45" -> "URL eslestirme ve onceliklendirme yapiliyor."
      [] pc[id] = "progress70" -> "Teknik audit yapiliyor (404, noindex, canonical, robots, sitemap)."
      [] pc[id] = "progress_batch" -> "Teknik audit devam ediyor..."
      [] pc[id] = "progress90" -> "Rapor hazirlaniyor."

\* where the audit stage goes once the batch loop is over (lines 438-441)
after_batches(id) == IF args[id].site_url THEN "cancel_robots" ELSE "progress90"

\* the batch loop left after its first batch
after_progress_one_batch(id) ==
    CASE pc[id] = "progress10" -> "inputs"
      [] pc[id] = "progress20" -> "cancel20"
      [] pc[id] = "progress45" -> "cancel45"
      [] pc[id] = "progress70" ->
            IF 0 < len_urls(id) THEN "cancel_batch" ELSE after_batches(id)
      [] pc[id] = "progress_batch" -> after_batches(id)
      [] pc[id] = "progress90" -> "cancel90"

\* perform_analysis without the cancel() of line 447
after_progress_no_last_cancel(id) ==
    CASE pc[id] = "progress10" -> "inputs"
      [] pc[id] = "progress20" -> "cancel20"
      [] pc[id] = "progress45" -> "cancel45"
      [] pc[id] = "progress70" ->
            IF len_urls(id) > 0 THEN "cancel_batch" ELSE after_batches(id)
      [] pc[id] = "progress_batch" ->
            IF loc[id].idx + batch_size < len_urls(id) THEN "cancel_batch"
            ELSE after_batches(id)
      [] pc[id] = "progress90" -> "build"

\* the statement after a completed progress() call
after_progress(id) ==
    CASE pc[id] = "progress10" -> "inputs"
      [] pc[id] = "progress20" -> "cancel20"
      [] pc[id] = "progress45" -> "cancel45"
      [] pc[id] = "progress70" ->
            IF 0 < len_urls(id) THEN "cancel_batch" ELSE after_batches(id)
      [] pc[id] = "progress_batch" ->
            IF loc[id].idx + batch_size < len_urls(id) THEN "cancel_batch"
            ELSE after_batches(id)
      [] pc[id] = "progress90" -> "cancel90"

\* the statement after a cancel() call that did not raise
after_cancel(id) ==
    CASE pc[id] = "cancel20" -> "discover"
      [] pc[id] = "cancel45" -> "match"
      [] pc[id] = "cancel_batch" -> "audit_batch"
      [] pc[id] = "cancel_robots" -> "robots"
      [] pc[id] = "cancel90" -> "build"

\* the first step of a statement: progress() starts with check_cancel,
\* a terminal update_job call with the lock acquisition
first_phase(p) ==
    IF p \in ProgressPcs THEN "check" ELSE IF p \in UpdatePcs THEN "update" ELSE "-"

\* run_analysis_job without its except JobCancelled clause
handler_of_no_cancel_clause(e) == "update_error"

\* run_analysis_job letting JobCancelled end the thread
handler_of_cancel_uncaught(e) ==
    IF e.kind = "JobCancelled" THEN "end" ELSE "update_error"

\* the except clause of run_analysis_job that handles exception e (lines 301-323)
handler_of(e) ==
    IF e.kind = "JobCancelled" THEN "update_cancelled" ELSE "update_error"

\* the cancelled update without progress=100
kwargs_of_cancel_keeps_progress(id, log_id) ==
    CASE pc[id] \in ProgressPcs ->
            [status |-> "running", progress |-> Max(1, Min(percent_of(id), 99)),
             message |-> message_of(id)]
      [] pc[id] = "update_done" ->
            [status |-> "done", progress |-> 100, message |-> "Rapor hazirlandi.",
             eta_seconds |-> 0]
      [] pc[id] = "update_cancelled" ->
            [status |-> "cancelled", message |-> "Analiz iptal edildi.", eta_seconds |-> 0]
      [] pc[id] = "update_error" ->
            LET app_error == IF exc[id].kind = "AppError" THEN exc[id]
                             ELSE AppError("Beklenmeyen bir hata olustu.", <<exc[id].text>>, log_id)
            IN  [status |-> "error", progress |-> 100, message |-> "Analiz tamamlanamadi.",
                 error |-> to_status_error(app_error), log_id |-> app_error.log_id,
                 eta_seconds |-> 0]

\* the keyword arguments of the update_job call at the worker's position
kwargs_of(id, log_id) ==
    CASE pc[id] \in ProgressPcs ->
            [status |-> "running", progress |-> Max(1, Min(percent_of(id), 99)),
             message |-> message_of(id)]
      [] pc[id] = "update_done" ->
            [status |-> "done", progress |-> 100, message |-> "Rapor hazirlandi.",
             eta_seconds |-> 0]
      [] pc[id] = "update_cancelled" ->
            [status |-> "cancelled", progress |-> 100, message |-> "Analiz iptal edildi.",
             eta_seconds |-> 0]
      [] pc[id] = "update_error" ->
            LET app_error == IF exc[id].kind = "AppError" THEN exc[id]
                             ELSE AppError("Beklenmeyen bir hata olustu.", <<exc[id].text>>, log_id)
            IN  [status |-> "error", progress |-> 100, message |-> "Analiz tamamlanamadi.",
                 error |-> to_status_error(app_error), log_id |-> app_error.log_id,
                 eta_seconds |-> 0]

----------------------------------------------------------------------------
(* Initial state: the module has been imported, no request was served *)

ServerInit ==
    /\ FEATURE_FLAGS \in [ASYNC_ANALYSIS : BOOLEAN, CANCEL_JOB : BOOLEAN]
    /\ JOBS = [id \in AllIds |-> NoJob]
    /\ RESULTS = [id \in AllIds |-> NoResult]
    /\ STATE_LOCK = Free
    /\ now = 1
    /\ pc = [id \in JobIds |-> "unborn"]
    /\ phase = [id \in JobIds |-> "-"]
    /\ args = [id \in JobIds |-> NoArgs]
    /\ loc = [id \in JobIds |-> NoLoc]
    /\ exc = [id \in JobIds |-> NoExc]
    /\ loop = [pc |-> "idle"]
    /\ pool = [id \in JobIds |-> 0]
    /\ out = NoReply
    /\ committed = [id \in AllIds |-> NoJob]
    /\ hist = [id \in JobIds |-> NoHist]

Init == ServerInit /\ call = NoCall

\* time.time(): the clock is read, and has not run backwards since the last reading
Clock == now .. MaxTime

----------------------------------------------------------------------------
(* Request handlers, run by the event loop (main.py 85-180) *)

ArgSets == [has_old_file : BOOLEAN, has_new_file : BOOLEAN, site_url : BOOLEAN,
            run_audit : BOOLEAN, audit_limit : AuditLimits, crawl_site : BOOLEAN]

\* the record analyze_start stores under the new job id (lines 109-120)
new_job(t) ==
    [status |-> "running", progress |-> 5, message |-> "Analiz siraya alindi.",
     error |-> << >>, log_id |-> "", created_at |-> t, started_epoch |-> t,
     eta_seconds |-> NoneEta, cancel_requested |-> FALSE,
     can_cancel |-> FEATURE_FLAGS.CANCEL_JOB]

\* POST /analyze/start
analyze_start(id, a) ==
    /\ loop.pc = "idle"
    /\ pc[id] = "unborn"
    /\ IF ~FEATURE_FLAGS.ASYNC_ANALYSIS
       THEN /\ out' = [op |-> "start", id |-> id, status |-> "async_disabled"]
            /\ UNCHANGED <<JOBS, now, pc, phase, args, loc, committed, hist>>
       ELSE /\ STATE_LOCK = Free
            /\ now' \in Clock
            /\ JOBS' = [JOBS EXCEPT ![id] = new_job(now')]
            /\ committed' = [committed EXCEPT ![id] = JOBS'[id]]
            /\ pc' = [pc EXCEPT ![id] = "progress10"]
            /\ phase' = [phase EXCEPT ![id] = "check"]
            /\ args' = [args EXCEPT ![id] = a]
            /\ loc' = [loc EXCEPT ![id] = [NoLoc EXCEPT !.run_audit = a.run_audit]]
            /\ hist' = [hist EXCEPT ![id].run_audit = a.run_audit]
            /\ out' = [op |-> "start", id |-> id, status |-> "job_id"]
    /\ UNCHANGED <<FEATURE_FLAGS, call, pool, RESULTS, STATE_LOCK, exc, loop>>

\* what happened to the job at the moment a cancel request is accepted
cancel_accepted(id) ==
    IF id \in JobIds
    THEN [hist EXCEPT ![id].cancel_early =
            @ \/ pc[id] \in {"progress10", "inputs", "progress20", "cancel20",
                             "discover", "progress45", "cancel45", "match", "progress70"}
              \/ (pc[id] = "cancel_batch" /\ loc[id].idx = 0),
                      ![id].cancel_batch =
            IF @ = 0 /\ pc[id] = "fetching" THEN hist[id].audit_calls ELSE @,
                      ![id].cancel_late =
            IF JOBS[id].cancel_requested THEN @
            ELSE pc[id] \in {"build", "store", "update_done"}]
    ELSE hist

\* analyze_cancel marking the job cancelled itself
analyze_cancel_marks_cancelled(id) ==
    /\ loop.pc = "idle"
    /\ IF ~FEATURE_FLAGS.CANCEL_JOB
       THEN /\ out' = [op |-> "cancel", id |-> id, status |-> "disabled"]
            /\ UNCHANGED <<JOBS, committed, hist>>
       ELSE /\ STATE_LOCK = Free
            /\ IF JOBS[id] = NoJob
               THEN /\ out' = [op |-> "cancel", id |-> id, status |-> "not_found"]
                    /\ UNCHANGED <<JOBS, committed, hist>>
               ELSE IF JOBS[id].status \in {"done", "error", "cancelled"}
               THEN /\ out' = [op |-> "cancel", id |-> id, status |-> "finished"]
                    /\ UNCHANGED <<JOBS, committed, hist>>
               ELSE /\ JOBS' = [JOBS EXCEPT ![id].cancel_requested = TRUE,
                                            ![id].status = "cancelled",
                                            ![id].progress = 100,
                                            ![id].eta_seconds = 0,
                                            ![id].message = "Iptal islemi siraya alindi..."]
                    /\ committed' = [committed EXCEPT ![id] = JOBS'[id]]
                    /\ hist' = cancel_accepted(id)
                    /\ out' = [op |-> "cancel", id |-> id, status |-> "cancelling"]
    /\ UNCHANGED <<FEATURE_FLAGS, call, pool, RESULTS, STATE_LOCK, now, pc, phase, args, loc, exc, loop>>

\* analyze_cancel without the test of lines 150-151
analyze_cancel_no_terminal_check(id) ==
    /\ loop.pc = "idle"
    /\ IF ~FEATURE_FLAGS.CANCEL_JOB
       THEN /\ out' = [op |-> "cancel", id |-> id, status |-> "disabled"]
            /\ UNCHANGED <<JOBS, committed, hist>>
       ELSE /\ STATE_LOCK = Free
            /\ IF JOBS[id] = NoJob
               THEN /\ out' = [op |-> "cancel", id |-> id, status |-> "not_found"]
                    /\ UNCHANGED <<JOBS, committed, hist>>
               ELSE /\ JOBS' = [JOBS EXCEPT ![id].cancel_requested = TRUE,
                                            ![id].message = "Iptal islemi siraya alindi..."]
                    /\ committed' = [committed EXCEPT ![id] = JOBS'[id]]
                    /\ hist' = cancel_accepted(id)
                    /\ out' = [op |-> "cancel", id |-> id, status |-> "cancelling"]
    /\ UNCHANGED <<FEATURE_FLAGS, call, pool, RESULTS, STATE_LOCK, now, pc, phase, args, loc, exc, loop>>

\* POST /analyze/cancel/{job_id}
analyze_cancel(id) ==
    /\ loop.pc = "idle"
    /\ IF ~FEATURE_FLAGS.CANCEL_JOB
       THEN /\ out' = [op |-> "cancel", id |-> id, status |-> "disabled"]
            /\ UNCHANGED <<JOBS, committed, hist>>
       ELSE /\ STATE_LOCK = Free
            /\ IF JOBS[id] = NoJob
               THEN /\ out' = [op |-> "cancel", id |-> id, status |-> "not_found"]
                    /\ UNCHANGED <<JOBS, committed, hist>>
               ELSE IF JOBS[id].status \in {"done", "error", "cancelled"}
               THEN /\ out' = [op |-> "cancel", id |-> id, status |-> "finished"]
                    /\ UNCHANGED <<JOBS, committed, hist>>
               ELSE /\ JOBS' = [JOBS EXCEPT ![id].cancel_requested = TRUE,
                                            ![id].message = "Iptal islemi siraya alindi..."]
                    /\ committed' = [committed EXCEPT ![id] = JOBS'[id]]
                    /\ hist' = cancel_accepted(id)
                    /\ out' = [op |-> "cancel", id |-> id, status |-> "cancelling"]
    /\ UNCHANGED <<FEATURE_FLAGS, call, pool, RESULTS, STATE_LOCK, now, pc, phase, args, loc, exc, loop>>

\* GET /analyze/status/{job_id}, lines 160-161: job = JOBS.get(job_id) under the lock
analyze_status_get(id) ==
    /\ loop.pc = "idle"
    /\ STATE_LOCK = Free
    /\ loop' = [pc |-> "status_copy", id |-> id, job |-> JOBS[id] # NoJob]
    /\ out' = NoReply
    /\ UNCHANGED <<FEATURE_FLAGS, call, pool, JOBS, RESULTS, STATE_LOCK, now, pc, phase, args,
                   loc, exc, committed, hist>>

\* dict(job), plus result_url when the copy says done (lines 164-166)
payload_of(id, job) ==
    [job |-> job, result_url |-> IF job.status = "done" THEN <<"/result/", id>> ELSE << >>]

\* GET /analyze/status/{job_id}, lines 162-167: after the lock was released
analyze_status_copy ==
    /\ loop.pc = "status_copy"
    /\ out' = IF ~loop.job
              THEN [op |-> "status", id |-> loop.id, status |-> "not_found"]
              ELSE [op |-> "status", id |-> loop.id, status |-> "ok",
                    payload |-> payload_of(loop.id, JOBS[loop.id])]
    /\ loop' = [pc |-> "idle"]
    /\ UNCHANGED <<FEATURE_FLAGS, call, pool, JOBS, RESULTS, STATE_LOCK, now, pc, phase, args,
                   loc, exc, committed, hist>>

\* GET /result/{job_id}
result_page(id) ==
    /\ loop.pc = "idle"
    /\ out' = IF ~RESULTS[id].stored
              THEN [op |-> "result", id |-> id, status |-> "not_found"]
              ELSE [op |-> "result", id |-> id, status |-> "ok", context |-> RESULTS[id].context]
    /\ UNCHANGED <<FEATURE_FLAGS, call, pool, JOBS, RESULTS, STATE_LOCK, now, pc, phase, args,
                   loc, exc, loop, committed, hist>>

----------------------------------------------------------------------------
(* The worker thread: run_analysis_job and perform_analysis (main.py 264-467) *)

\* an exception leaves perform_analysis, whose arguments and locals go with its
\* frame, and reaches its except clause in run_analysis_job
raise(id, e) ==
    /\ exc' = [exc EXCEPT ![id] = e]
    /\ args' = [args EXCEPT ![id] = NoArgs]
    /\ loc' = [loc EXCEPT ![id] = NoLoc]
    /\ pc' = [pc EXCEPT ![id] = handler_of(e)]
    /\ phase' = [phase EXCEPT ![id] = "update"]

\* the statement at position p comes next
goto(id, p) ==
    /\ pc' = [pc EXCEPT ![id] = p]
    /\ phase' = [phase EXCEPT ![id] = first_phase(p)]

\* run_analysis_job returns and the thread ends, its arguments and locals with it
thread_end(id) ==
    /\ goto(id, "end")
    /\ args' = [args EXCEPT ![id] = NoArgs]
    /\ loc' = [loc EXCEPT ![id] = NoLoc]
    /\ exc' = [exc EXCEPT ![id] = NoExc]

\* history: the checkpoint the worker is at finds cancel_requested set
checkpoint_reached(id) ==
    IF JOBS[id].cancel_requested THEN [hist EXCEPT ![id].stopped_at = pc[id]] ELSE hist

\* check_cancel(job_id) as the first statement of progress() (line 277)
progress_check(id) ==
    /\ pc[id] \in ProgressPcs
    /\ phase[id] = "check"
    /\ STATE_LOCK = Free
    /\ hist' = checkpoint_reached(id)
    /\ IF cancel_requested_now(id)
       THEN raise(id, JobCancelled)
       ELSE /\ phase' = [phase EXCEPT ![id] = "update"]
            /\ UNCHANGED <<pc, args, loc, exc>>
    /\ out' = NoReply
    /\ UNCHANGED <<FEATURE_FLAGS, call, pool, JOBS, RESULTS, STATE_LOCK, now, loop, committed>>

\* the batch loop without the cancel() of line 433
cancel_check_not_in_loop(id) ==
    /\ pc[id] \in CancelPcs
    /\ STATE_LOCK = Free
    /\ hist' = checkpoint_reached(id)
    /\ IF cancel_requested_now(id) /\ pc[id] # "cancel_batch"
       THEN raise(id, JobCancelled)
       ELSE /\ goto(id, after_cancel(id))
            /\ UNCHANGED <<args, loc, exc>>
    /\ out' = NoReply
    /\ UNCHANGED <<FEATURE_FLAGS, call, pool, JOBS, RESULTS, STATE_LOCK, now, loop, committed>>

\* cancel(), that is check_cancel(job_id), between two stages (line 292)
cancel_check(id) ==
    /\ pc[id] \in CancelPcs
    /\ STATE_LOCK = Free
    /\ hist' = checkpoint_reached(id)
    /\ IF cancel_requested_now(id)
       THEN raise(id, JobCancelled)
       ELSE /\ goto(id, after_cancel(id))
            /\ UNCHANGED <<args, loc, exc>>
    /\ out' = NoReply
    /\ UNCHANGED <<FEATURE_FLAGS, call, pool, JOBS, RESULTS, STATE_LOCK, now, loop, committed>>

\* update_job, lines 327-329: take the lock, current.update(kwargs)
update_job_begin(id) ==
    /\ pc[id] \in ProgressPcs \cup UpdatePcs
    /\ phase[id] = "update"
    /\ STATE_LOCK = Free
    /\ \E log_id \in IF pc[id] = "update_error" /\ exc[id].kind = "Exception"
                     THEN LogIds ELSE {""} :
          JOBS' = [JOBS EXCEPT ![id] = dict_update(JOBS[id], kwargs_of(id, log_id))]
    /\ STATE_LOCK' = id
    /\ phase' = [phase EXCEPT ![id] = "eta"]
    /\ out' = NoReply
    /\ UNCHANGED <<FEATURE_FLAGS, call, pool, RESULTS, now, pc, args, loc, exc, loop, committed, hist>>

\* update_job, lines 330-338: set eta_seconds, release the lock; the caller goes on
update_job_end(id) ==
    /\ phase[id] = "eta"
    /\ STATE_LOCK = id
    /\ now' \in Clock
    /\ JOBS' = [JOBS EXCEPT ![id] = update_job_eta(JOBS[id], now')]
    /\ committed' = [committed EXCEPT ![id] = JOBS'[id]]
    /\ STATE_LOCK' = Free
    /\ IF pc[id] \in ProgressPcs
       THEN /\ goto(id, after_progress(id))
            /\ loc' = [loc EXCEPT ![id].idx =
                          IF pc[id] = "progress_batch" /\ after_progress(id) = "cancel_batch"
                          THEN @ + batch_size ELSE @]
            /\ hist' = [hist EXCEPT ![id].updates = 1, ![id].read_at = now']
            /\ UNCHANGED <<args, exc>>
       ELSE /\ thread_end(id)
            /\ UNCHANGED hist
    /\ out' = NoReply
    /\ UNCHANGED <<FEATURE_FLAGS, call, pool, RESULTS, loop>>

\* the messages parse_csv_file and parse_gsc_csv may hand back
CsvErrors == {<< >>, <<"Yeni URL dosyasi: 2. satirdaki URL gecersiz (http://)">>}
GscErrors == {<< >>, <<"GSC CSV: 'url' kolonu zorunludur.">>}

\* lines 403-406: the messages for empty row lists
empty_errors(n_old, n_new) ==
    (IF n_old = 0 THEN <<"Eski URL listesi bos veya gecersiz.">> ELSE << >>)
    \o (IF n_new = 0 THEN <<"Yeni URL listesi bos veya gecersiz.">> ELSE << >>)

\* lines 407-410: raise AppError when any message was collected, else go on to matching
validate(id, rows, errors, log_id) ==
    IF errors # << >>
    THEN /\ raise(id, AppError("Analiz baslatilamadi.", errors, log_id))
         /\ hist' = [hist EXCEPT ![id].failed = "validation"]
    ELSE /\ goto(id, "progress45")
         /\ loc' = [loc EXCEPT ![id] = rows]
         /\ UNCHANGED <<args, exc>>
         /\ hist' = [hist EXCEPT ![id].run_audit = rows.run_audit]

\* an exception other than AppError and JobCancelled escapes a stage
unexpected(id) ==
    /\ \E text \in ExcTexts : raise(id, OtherException(text))
    /\ hist' = [hist EXCEPT ![id].failed = "unexpected"]

\* lines 373-408 when the scan branch is not taken
inputs(id) ==
    /\ pc[id] = "inputs"
    /\ out' = NoReply
    /\ \/ /\ args[id].has_old_file /\ args[id].has_new_file
          /\ \/ \E n_old \in {0, 1}, n_new \in UrlCounts, csv \in CsvErrors, gsc \in GscErrors,
                   log_id \in LogIds :
                   validate(id, [loc[id] EXCEPT !.n_old = n_old, !.n_new = n_new],
                            csv \o gsc \o empty_errors(n_old, n_new), log_id)
             \/ unexpected(id)
       \/ /\ ~(args[id].has_old_file /\ args[id].has_new_file)
          /\ args[id].crawl_site /\ args[id].site_url
          /\ loc' = [loc EXCEPT ![id].analysis_mode = "scan"]
          /\ goto(id, "progress20")
          /\ UNCHANGED <<args, exc, hist>>
       \/ /\ ~(args[id].has_old_file /\ args[id].has_new_file)
          /\ ~(args[id].crawl_site /\ args[id].site_url)
          /\ \E gsc \in GscErrors, log_id \in LogIds :
                validate(id, loc[id],
                    <<"CSV gecis analizi icin eski ve yeni URL dosyalari gereklidir.",
                      "Alternatif olarak 'Siteyi otomatik tara' secenegini acip Site URL girebilirsin.">>
                    \o gsc \o empty_errors(0, 0), log_id)
    /\ UNCHANGED <<FEATURE_FLAGS, call, pool, JOBS, RESULTS, STATE_LOCK, now, loop, committed>>

\* cap = max(10, min(crawl_limit, 2000)) with the form's default crawl_limit
crawl_limit == 200
crawl_cap == Max(crawl_cap_min, Min(crawl_limit, crawl_cap_max))

\* lines 385-408 of the scan branch: discover_site_urls, then the validation
discover(id) ==
    /\ pc[id] = "discover"
    /\ out' = NoReply
    /\ \/ \E n \in {u \in UrlCounts : u <= crawl_cap}, gsc \in GscErrors, log_id \in LogIds :
             validate(id, [loc[id] EXCEPT !.n_old = n, !.n_new = n, !.run_audit = TRUE],
                   (IF n = 0
                    THEN <<"Site URL ile otomatik taramada URL bulunamadi. Site erisimi, robots veya sitemap kontrol edin.">>
                    ELSE << >>) \o gsc \o empty_errors(n, n), log_id)
       \/ unexpected(id)
    /\ UNCHANGED <<FEATURE_FLAGS, call, pool, JOBS, RESULTS, STATE_LOCK, now, loop, committed>>

\* lines 412-423: match_urls (or the scan rows), summary, urgent actions, the two CSVs
match(id) ==
    /\ pc[id] = "match"
    /\ hist' = [hist EXCEPT ![id].matched = TRUE]
    /\ goto(id, IF loc[id].run_audit THEN "progress70" ELSE "progress90")
    /\ out' = NoReply
    /\ UNCHANGED <<FEATURE_FLAGS, call, pool, JOBS, RESULTS, STATE_LOCK, now, args, loc, exc, loop, committed>>

\* run_quick_audit, lines 34-38 of audit.py: one audit_single_url call is
\* submitted to the executor for every distinct URL of the batch
audit_batch(id) ==
    /\ pc[id] = "audit_batch"
    /\ \E n \in 1 .. Min(len_batch(id), MaxFetches) : pool' = [pool EXCEPT ![id] = n]
    /\ hist' = [hist EXCEPT ![id].audit_calls = @ + 1]
    /\ goto(id, "fetching")
    /\ out' = NoReply
    /\ UNCHANGED <<FEATURE_FLAGS, call, JOBS, RESULTS, STATE_LOCK, now, args, loc, exc, loop, committed>>

\* an audit_single_url call returns; it catches every exception of its fetch
fetch_done(id) ==
    /\ pool[id] > 0
    /\ pool' = [pool EXCEPT ![id] = @ - 1]
    /\ out' = NoReply
    /\ UNCHANGED <<FEATURE_FLAGS, call, JOBS, RESULTS, STATE_LOCK, now, pc, phase, args, loc, exc,
                   loop, committed, hist>>

\* the executor with too few workers to wait for: the with block left at once
audit_collect_no_wait(id) ==
    /\ pc[id] = "fetching"
    /\ loc' = [loc EXCEPT ![id].audit_results = @ + 1]
    /\ hist' = [hist EXCEPT ![id].batches_done = @ + 1]
    /\ goto(id, "progress_batch")
    /\ out' = NoReply
    /\ UNCHANGED <<FEATURE_FLAGS, call, pool, JOBS, RESULTS, STATE_LOCK, now, args, exc, loop, committed>>

\* run_quick_audit, lines 39-43 of audit.py, and line 435 of main.py: as_completed
\* has yielded every future and the with block has shut the executor down
audit_collect(id) ==
    /\ pc[id] = "fetching"
    /\ pool[id] = 0
    /\ loc' = [loc EXCEPT ![id].audit_results = @ + 1]
    /\ hist' = [hist EXCEPT ![id].batches_done = @ + 1]
    /\ goto(id, "progress_batch")
    /\ out' = NoReply
    /\ UNCHANGED <<FEATURE_FLAGS, call, pool, JOBS, RESULTS, STATE_LOCK, now, args, exc, loop, committed>>

\* line 440: audit_results.extend(check_robots_and_sitemap(site_url));
\* ensure_site_url raises ValueError on a site_url urlparse rejects
robots(id) ==
    /\ pc[id] = "robots"
    /\ out' = NoReply
    /\ \/ /\ loc' = [loc EXCEPT ![id].audit_results = @ + 1]
          /\ hist' = [hist EXCEPT ![id].robots_calls = @ + 1, ![id].robots_done = TRUE]
          /\ goto(id, "progress90")
          /\ UNCHANGED <<args, exc>>
       \/ /\ loc[id].analysis_mode = "migration"
          /\ unexpected(id)
    /\ UNCHANGED <<FEATURE_FLAGS, call, pool, JOBS, RESULTS, STATE_LOCK, now, loop, committed>>

\* lines 448-467: comparison rows, recovery panel, comparison CSV, context, package
build(id) ==
    /\ pc[id] = "build"
    /\ hist' = [hist EXCEPT ![id].compared = TRUE, ![id].packaged = TRUE]
    /\ goto(id, "store")
    /\ out' = NoReply
    /\ UNCHANGED <<FEATURE_FLAGS, call, pool, JOBS, RESULTS, STATE_LOCK, now, args, loc, exc, loop, committed>>

\* the package perform_analysis returned, as run_analysis_job stores it (lines 294-299)
package_of(id) ==
    [stored |-> TRUE,
     context |-> [job_id |-> id, analysis_mode |-> loc[id].analysis_mode,
                  run_audit |-> loc[id].run_audit, audit_results |-> loc[id].audit_results]]

\* run_analysis_job without the assignment of lines 294-299
store_left_out(id) ==
    /\ pc[id] = "store"
    /\ goto(id, "update_done")
    /\ out' = NoReply
    /\ UNCHANGED <<FEATURE_FLAGS, call, pool, JOBS, RESULTS, STATE_LOCK, now, args, loc, exc,
                   loop, committed, hist>>

\* the package stored before the last cancellation checkpoint
store_before_checkpoint(id) ==
    /\ pc[id] = "store"
    /\ RESULTS' = [RESULTS EXCEPT ![id] = package_of(id)]
    /\ hist' = [hist EXCEPT ![id].result_writes = @ + 1]
    /\ goto(id, "cancel90")
    /\ out' = NoReply
    /\ UNCHANGED <<FEATURE_FLAGS, call, pool, JOBS, STATE_LOCK, now, args, loc, exc, loop, committed>>

\* RESULTS[job_id] = {...} (lines 294-299)
store(id) ==
    /\ pc[id] = "store"
    /\ RESULTS' = [RESULTS EXCEPT ![id] = package_of(id)]
    /\ hist' = [hist EXCEPT ![id].result_writes = @ + 1]
    /\ goto(id, "update_done")
    /\ out' = NoReply
    /\ UNCHANGED <<FEATURE_FLAGS, call, pool, JOBS, STATE_LOCK, now, args, loc, exc, loop, committed>>

----------------------------------------------------------------------------

Next ==
    \/ \E id \in JobIds, a \in ArgSets : analyze_start(id, a)
    \/ \E id \in AllIds : analyze_cancel(id)
    \/ \E id \in JobIds : analyze_status_get(id)
    \/ analyze_status_copy
    \/ \E id \in JobIds : result_page(id)
    \/ \E id \in JobIds : progress_check(id)
    \/ \E id \in JobIds : cancel_check(id)
    \/ \E id \in JobIds : update_job_begin(id)
    \/ \E id \in JobIds : update_job_end(id)
    \/ \E id \in JobIds : inputs(id)
    \/ \E id \in JobIds : discover(id)
    \/ \E id \in JobIds : match(id)
    \/ \E id \in JobIds : audit_batch(id)
    \/ \E id \in JobIds : fetch_done(id)
    \/ \E id \in JobIds : audit_collect(id)
    \/ \E id \in JobIds : robots(id)
    \/ \E id \in JobIds : build(id)
    \/ \E id \in JobIds : store(id)

Spec == Init /\ [][Next]_vars

\* the statements of the worker thread of job id
worker_step(id) ==
    \/ progress_check(id)
    \/ cancel_check(id)
    \/ update_job_begin(id)
    \/ update_job_end(id)
    \/ inputs(id)
    \/ discover(id)
    \/ match(id)
    \/ audit_batch(id)
    \/ audit_collect(id)
    \/ robots(id)
    \/ build(id)
    \/ store(id)

\* the worker thread is scheduled when it can run (the handlers hold
\* STATE_LOCK for a few statements only), and every request of audit_single_url
\* returns or runs into its timeout of 8 seconds
FairSpec ==
    /\ Spec
    /\ \A id \in JobIds : WF_vars(worker_step(id)) /\ WF_vars(fetch_done(id))

----------------------------------------------------------------------------
(* URLs and the matcher (services/matching.py) *)

\* A URL string is held as what urlparse reads from it: scheme, netloc, the
\* directories of the path, its last segment (a sequence of characters, empty
\* only for the paths "" and "/"), whether the path ends in "/", and the query.
EmptyUrl == [scheme |-> "", netloc |-> "", dirs |-> << >>, slug |-> << >>,
             slash |-> FALSE, query |-> ""]

\* all sequences over S of length at most n
SeqsUpTo(S, n) == UNION {[1 .. k -> S] : k \in 0 .. n}

\* str.lower() on the host names and characters that occur
lower(x) == CASE x = "OLD.com" -> "old.com" [] x = "A" -> "a" [] OTHER -> x

lower_seq(q) == [i \in DOMAIN q |-> lower(q[i])]

\* path_of: parsed.path or "/", without one trailing "/" unless the path is "/"
path_of(url) ==
    IF url.dirs = << >> /\ url.slug = << >>
    THEN [dirs |-> << >>, slug |-> << >>, slash |-> TRUE]
    ELSE [dirs |-> url.dirs, slug |-> url.slug, slash |-> FALSE]

\* p.lower() of a path
lower_path(p) == [dirs |-> lower_seq(p.dirs), slug |-> lower_seq(p.slug), slash |-> p.slash]

\* normalize_url: f"{scheme.lower()}://{netloc.lower()}{path}", the query dropped
normalize_url(url) ==
    [scheme |-> lower(url.scheme), netloc |-> lower(url.netloc),
     dirs |-> path_of(url).dirs, slug |-> path_of(url).slug,
     slash |-> path_of(url).slash, query |-> ""]

\* infer_type: "/products/", "/collections/", "/category/", "/blog" in the lowered path
infer_type(url) ==
    LET path == lower_path(path_of(url))
        has(name) == \E i \in DOMAIN path.dirs : path.dirs[i] = name
    IN  IF has("products") THEN "product"
        ELSE IF has("collections") \/ has("category") THEN "category"
        ELSE IF has("blog") \/ has("blogs") THEN "blog"
        ELSE "page"

\* slug_of: the last segment of path_of(url), lowered
slug_of(url) == lower_seq(path_of(url).slug)

RECURSIVE split_slug(_, _, _)
\* re.split(r"[-_\s]+", slug) from position i on, token being the piece read so far
split_slug(slug, i, token) ==
    IF i > Len(slug)
    THEN IF token = << >> THEN << >> ELSE <<token>>
    ELSE IF slug[i] \in {"-", "_", " "}
         THEN (IF token = << >> THEN << >> ELSE <<token>>) \o split_slug(slug, i + 1, << >>)
         ELSE split_slug(slug, i + 1, Append(token, slug[i]))

\* tokenize_slug: the non-empty pieces
tokenize_slug(slug) == split_slug(slug, 1, << >>)

\* the blocks a[i .. i+k-1] = b[j .. j+k-1] of SequenceMatcher(None, a, b)
common_blocks(a, b) ==
    {m \in (1 .. Len(a)) \X (1 .. Len(b)) \X (1 .. Min(Len(a), Len(b))) :
        /\ m[1] + m[3] - 1 <= Len(a)
        /\ m[2] + m[3] - 1 <= Len(b)
        /\ SubSeq(a, m[1], m[1] + m[3] - 1) = SubSeq(b, m[2], m[2] + m[3] - 1)}

\* SequenceMatcher.find_longest_match: the longest block, of those the one that
\* starts earliest in a, of those the one that starts earliest in b
longest_match(a, b) ==
    CHOOSE m \in common_blocks(a, b) :
        \A n \in common_blocks(a, b) :
            \/ m[3] > n[3]
            \/ m[3] = n[3] /\ m[1] < n[1]
            \/ m[3] = n[3] /\ m[1] = n[1] /\ m[2] <= n[2]

RECURSIVE matching_size(_, _)
\* the sum of the sizes of SequenceMatcher.get_matching_blocks
matching_size(a, b) ==
    IF common_blocks(a, b) = {}
    THEN 0
    ELSE LET m == longest_match(a, b)
         IN  m[3]
             + matching_size(SubSeq(a, 1, m[1] - 1), SubSeq(b, 1, m[2] - 1))
             + matching_size(SubSeq(a, m[1] + m[3], Len(a)), SubSeq(b, m[2] + m[3], Len(b)))

\* similarity: SequenceMatcher(None, a, b).ratio() as the fraction num/den;
\* ratio() is 1.0 when both strings are empty
similarity(a, b) ==
    IF Len(a) + Len(b) = 0
    THEN [num |-> 1, den |-> 1]
    ELSE [num |-> 2 * matching_size(a, b), den |-> Len(a) + Len(b)]

\* lines 90-96: (seq_score * 0.75) + (jaccard * 0.25) as a fraction
slug_score(old_slug, candidate) ==
    LET cand_slug == slug_of(candidate)
        seq_score == similarity(old_slug, cand_slug)
        old_tokens == {tokenize_slug(old_slug)[i] : i \in DOMAIN tokenize_slug(old_slug)}
        cand_tokens == {tokenize_slug(cand_slug)[i] : i \in DOMAIN tokenize_slug(cand_slug)}
        union == IF Cardinality(old_tokens \cup cand_tokens) = 0 THEN 1
                 ELSE Cardinality(old_tokens \cup cand_tokens)
        common == Cardinality(old_tokens \cap cand_tokens)
    IN  [num |-> 3 * seq_score.num * union + common * seq_score.den,
         den |-> 4 * seq_score.den * union]

\* int(round(score * 100)): round to the nearest integer, a half to the even one
percent_of_score(score) ==
    LET q == (100 * score.num) \div score.den
        r == (100 * score.num) % score.den
    IN  IF 2 * r > score.den THEN q + 1
        ELSE IF 2 * r = score.den THEN (IF q % 2 = 1 THEN q + 1 ELSE q)
        ELSE q

\* result_row
result_row(old_url, new_url, score, reason, page_type) ==
    [old_url |-> old_url, new_url |-> new_url, score |-> score, reason |-> reason,
     type |-> page_type, old_path |-> path_of(old_url),
     new_path |-> IF new_url # EmptyUrl THEN path_of(new_url)
                  ELSE [dirs |-> << >>, slug |-> << >>, slash |-> FALSE]]

KnownTypes == {"product", "category", "page", "blog"}

\* lines 60-65: the type under which a new row is filed
page_type_of(row) ==
    LET t == lower(IF row.type # "" THEN row.type ELSE infer_type(row.url))
    IN  IF t \in KnownTypes THEN t ELSE "page"

\* new_by_norm keyed by the URL as written
new_by_norm_raw(new_rows) ==
    [k \in {new_rows[i].url : i \in DOMAIN new_rows} |-> k]

\* new_by_norm after the loop of lines 56-66: the last URL filed under each key
new_by_norm(new_rows) ==
    [k \in {normalize_url(new_rows[i].url) : i \in DOMAIN new_rows} |->
        LET last == CHOOSE i \in DOMAIN new_rows :
                        /\ normalize_url(new_rows[i].url) = k
                        /\ \A j \in DOMAIN new_rows :
                              normalize_url(new_rows[j].url) = k => j <= i
        IN  new_rows[last].url]

\* new_by_path after the loop of lines 56-66
new_by_path(new_rows) ==
    [k \in {lower_path(path_of(new_rows[i].url)) : i \in DOMAIN new_rows} |->
        LET last == CHOOSE i \in DOMAIN new_rows :
                        /\ lower_path(path_of(new_rows[i].url)) = k
                        /\ \A j \in DOMAIN new_rows :
                              lower_path(path_of(new_rows[j].url)) = k => j <= i
        IN  new_rows[last].url]

RECURSIVE urls_of_type(_, _, _)
\* new_by_type[t] after the loop of lines 56-66, from row i on
urls_of_type(new_rows, t, i) ==
    IF i > Len(new_rows) THEN << >>
    ELSE (IF page_type_of(new_rows[i]) = t THEN <<new_rows[i].url>> ELSE << >>)
         \o urls_of_type(new_rows, t, i + 1)

\* new_all_urls
new_all_urls(new_rows) == [i \in DOMAIN new_rows |-> new_rows[i].url]

RECURSIVE best_candidate(_, _, _, _)
\* the loop of lines 89-99 from candidate i on; best.target is 0 for None
best_candidate(old_slug, candidates, i, best) ==
    IF i > Len(candidates) THEN best
    ELSE LET score == slug_score(old_slug, candidates[i])
         IN  best_candidate(old_slug, candidates, i + 1,
                IF score.num * best.score.den > best.score.num * score.den
                THEN [target |-> i, score |-> score]
                ELSE best)

\* line 102 without the threshold
accepted_any_percent(best_target, percent) == best_target # EmptyUrl

\* line 102: best_target and percent >= 60
accepted(best_target, percent) == best_target # EmptyUrl /\ percent >= 60

\* lines 70-105 without the two continue statements
rows_of_no_continue(row, new_rows) ==
    LET old_url == row.url
        old_type == lower(IF row.type # "" THEN row.type ELSE infer_type(old_url))
        old_norm == normalize_url(old_url)
        old_path == lower_path(path_of(old_url))
        old_slug == slug_of(old_url)
        typed == IF old_type \in KnownTypes THEN urls_of_type(new_rows, old_type, 1) ELSE << >>
        candidates == IF typed # << >> THEN typed ELSE new_all_urls(new_rows)
        best == best_candidate(old_slug, candidates, 1,
                               [target |-> 0, score |-> [num |-> 0, den |-> 1]])
        percent == percent_of_score(best.score)
    IN  (IF old_norm \in DOMAIN new_by_norm(new_rows)
         THEN <<result_row(old_url, new_by_norm(new_rows)[old_norm], 100, "exact_url", old_type)>>
         ELSE << >>)
        \o (IF old_path \in DOMAIN new_by_path(new_rows)
            THEN <<result_row(old_url, new_by_path(new_rows)[old_path], 95, "exact_path", old_type)>>
            ELSE << >>)
        \o (IF best.target # 0 /\ accepted(candidates[best.target], percent)
            THEN <<result_row(old_url, candidates[best.target], percent, "slug_similarity", old_type)>>
            ELSE <<result_row(old_url, EmptyUrl, 0, "manual_required", old_type)>>)

\* lines 70-105: the rows one iteration of the loop over old_rows appends
rows_of(row, new_rows) ==
    LET old_url == row.url
        old_type == lower(IF row.type # "" THEN row.type ELSE infer_type(old_url))
        old_norm == normalize_url(old_url)
        old_path == lower_path(path_of(old_url))
        old_slug == slug_of(old_url)
        typed == IF old_type \in KnownTypes THEN urls_of_type(new_rows, old_type, 1) ELSE << >>
        candidates == IF typed # << >> THEN typed ELSE new_all_urls(new_rows)
        best == best_candidate(old_slug, candidates, 1,
                               [target |-> 0, score |-> [num |-> 0, den |-> 1]])
        percent == percent_of_score(best.score)
    IN  IF old_norm \in DOMAIN new_by_norm(new_rows)
        THEN <<result_row(old_url, new_by_norm(new_rows)[old_norm], 100, "exact_url", old_type)>>
        ELSE IF old_path \in DOMAIN new_by_path(new_rows)
        THEN <<result_row(old_url, new_by_path(new_rows)[old_path], 95, "exact_path", old_type)>>
        ELSE IF best.target # 0 /\ accepted(candidates[best.target], percent)
        THEN <<result_row(old_url, candidates[best.target], percent, "slug_similarity", old_type)>>
        ELSE <<result_row(old_url, EmptyUrl, 0, "manual_required", old_type)>>

RECURSIVE match_loop(_, _, _, _)
\* the loop of lines 69-105 from old row i on
match_loop(old_rows, new_rows, i, results) ==
    IF i > Len(old_rows) THEN results
    ELSE match_loop(old_rows, new_rows, i + 1, results \o rows_of(old_rows[i], new_rows))

\* match_urls
match_urls(old_rows, new_rows) == match_loop(old_rows, new_rows, 1, << >>)

----------------------------------------------------------------------------
(* match_urls on its own *)

MaxOld == 2     \* the largest number of old rows
MaxNew == 2     \* the largest number of new rows

\* "https://<netloc>/<dirs>/<slug>" with an optional trailing "/" and query
Url(netloc, dirs, slug, slash, query) ==
    [scheme |-> "https", netloc |-> netloc, dirs |-> dirs, slug |-> slug,
     slash |-> slash, query |-> query]

\* rows as parse_csv_file yields them: the URL is never empty, the type may be
MatchRows ==
    {[url |-> Url("old.com", << >>, <<"a", "-", "b">>, FALSE, ""), type |-> ""],
     [url |-> Url("OLD.com", << >>, <<"a", "-", "b">>, TRUE, "q=1"), type |-> ""],
     [url |-> Url("new.com", << >>, <<"A", "-", "b">>, FALSE, ""), type |-> ""],
     [url |-> Url("new.com", <<"products">>, <<"a", "-", "b", "-", "c">>, FALSE, ""), type |-> ""],
     [url |-> Url("new.com", << >>, <<"a", "-", "c">>, FALSE, ""), type |-> ""],
     [url |-> Url("old.com", << >>, <<"a", "b">>, FALSE, ""), type |-> "product"],
     [url |-> Url("new.com", << >>, <<"a", "b", "c">>, FALSE, ""), type |-> ""]}

MatchInit ==
    /\ ServerInit
    /\ FEATURE_FLAGS = [ASYNC_ANALYSIS |-> TRUE, CANCEL_JOB |-> TRUE]
    /\ call \in [fn : {"match_urls"}, old_rows : SeqsUpTo(MatchRows, MaxOld),
                 new_rows : SeqsUpTo(MatchRows, MaxNew), returned : {FALSE},
                 results : {<< >>}]

\* matches = match_urls(old_rows, new_rows)
match_urls_call ==
    /\ call.fn = "match_urls"
    /\ ~call.returned
    /\ call' = [call EXCEPT !.returned = TRUE,
                            !.results = match_urls(call.old_rows, call.new_rows)]
    /\ UNCHANGED server_vars

MatchNext == match_urls_call

MatchSpec == MatchInit /\ [][MatchNext]_vars

----------------------------------------------------------------------------
(* Site discovery (services/audit.py) *)

EXCLUDED_EXTENSIONS ==
    {".css", ".js", ".png", ".jpg", ".jpeg", ".gif", ".svg", ".webp", ".ico",
     ".json", ".map", ".woff", ".woff2", ".ttf", ".eot", ".pdf", ".zip"}

\* the directory names of "/build/" and "/assets/"
EXCLUDED_PATH_PARTS == {"build", "assets"}

RECURSIVE dedup(_, _)
\* list(dict.fromkeys(q)): the first occurrence of every element, in order
dedup(q, kept) ==
    IF q = << >> THEN kept
    ELSE dedup(Tail(q),
               IF \E i \in DOMAIN kept : kept[i] = Head(q) THEN kept
               ELSE Append(kept, Head(q)))

\* q[:n]
take(q, n) == SubSeq(q, 1, Min(Len(q), n))

\* ensure_site_url: f"{scheme}://{netloc}" of the site URL
ensure_site_url(url) ==
    [scheme |-> url.scheme, netloc |-> url.netloc, dirs |-> << >>,
     slug |-> << >>, slash |-> FALSE, query |-> ""]

\* urlparse(url) raises ValueError ("Invalid IPv6 URL") when the netloc holds a
\* "[" or a "]" without the other
urlparse_raises(url) == url.netloc = "[bad"

\* "http://[bad"
Malformed == [EmptyUrl EXCEPT !.scheme = "http", !.netloc = "[bad"]

\* is_same_domain: the lowered netlocs are equal
is_same_domain(url, base_url) == lower(url.netloc) = lower(base_url.netloc)

\* should_include_url: the lowered path holds no excluded part and does not
\* end in an excluded extension
should_include_url(url) ==
    /\ ~\E i \in DOMAIN url.dirs : lower(url.dirs[i]) \in EXCLUDED_PATH_PARTS
    /\ ~(url.slash /\ Len(url.slug) = 1 /\ lower(url.slug[1]) \in EXCLUDED_PATH_PARTS)
    /\ ~(~url.slash /\ url.slug # << >>
         /\ lower(url.slug[Len(url.slug)]) \in EXCLUDED_EXTENSIONS)

\* candidate.endswith(".xml")
ends_with_xml(url) ==
    /\ url.query = ""
    /\ ~url.slash
    /\ url.slug # << >>
    /\ url.slug[Len(url.slug)] = ".xml"

\* candidate.startswith(("http://", "https://"))
starts_with_http(url) == url.scheme \in {"http", "https"}

\* f"{base_url}/sitemap.xml"
sitemap_of(base_url) == [base_url EXCEPT !.slug = <<"sitemap", ".xml">>]

RECURSIVE sitemap_locs(_, _, _)
\* the loop of lines 211-216 over the <loc> values of one sitemap
sitemap_locs(loc_values, queue, found) ==
    IF loc_values = << >> THEN [queue |-> queue, found |-> found]
    ELSE LET candidate == Head(loc_values)
         IN  IF ends_with_xml(candidate)
             THEN sitemap_locs(Tail(loc_values), Append(queue, candidate), found)
             ELSE IF starts_with_http(candidate)
             THEN sitemap_locs(Tail(loc_values), queue, Append(found, candidate))
             ELSE sitemap_locs(Tail(loc_values), queue, found)

RECURSIVE sitemap_filter(_, _, _, _)
\* the loop of lines 175-179 over the URLs that the sitemaps gave
sitemap_filter(sitemap_urls, base, limit, discovered) ==
    IF sitemap_urls = << >> THEN [raised |-> FALSE, discovered |-> discovered]
    ELSE LET url == Head(sitemap_urls)
             more == IF is_same_domain(url, base) /\ should_include_url(url)
                     THEN Append(discovered, url) ELSE discovered
         IN  IF urlparse_raises(url) THEN [raised |-> TRUE, discovered |-> discovered]
             ELSE IF Len(more) >= limit THEN [raised |-> FALSE, discovered |-> more]
             ELSE sitemap_filter(Tail(sitemap_urls), base, limit, more)

\* line 197 for a set that is never looked at
sitemap_visited_never(sitemap_url, visited) == FALSE

\* line 197: sitemap_url in visited, a set of the raw URLs
sitemap_visited(sitemap_url, visited) == sitemap_url \in visited

\* line 232 for a set that is never looked at
crawl_visited_never(normalized_current, visited) == FALSE

\* line 232: normalized_current in visited, a set of normalized URLs
crawl_visited(normalized_current, visited) == normalized_current \in visited

\* lines 249-250 without the test of line 249
crawl_found_unfiltered(found, final_url) == Append(found, final_url)

\* lines 249-250: the final URL of a fetched page is kept if it is included
crawl_found(found, final_url) ==
    IF should_include_url(final_url) THEN Append(found, final_url) ELSE found

RECURSIVE crawl_links(_, _, _, _, _)
\* the loop of lines 252-262 over the links of one page
crawl_links(links, base_url, limit, visited, queue) ==
    IF links = << >> THEN queue
    ELSE LET link == Head(links)
         IN  IF ~is_same_domain(link, base_url) \/ ~should_include_url(link)
                \/ normalize_url(link) \in visited
             THEN crawl_links(Tail(links), base_url, limit, visited, queue)
             ELSE crawl_links(Tail(links), base_url, limit, visited,
                              take(Append(queue, link), limit * 5))

----------------------------------------------------------------------------
(* discover_site_urls on its own *)

MaxLimit == 2   \* the largest cap on the number of discovered URLs
MaxLocs == 2    \* the largest number of <loc> values in one sitemap
MaxLinks == 2   \* the largest number of links in one page

SiteUrl == Url("site.com", << >>, << >>, TRUE, "")

\* what a sitemap of the site may name: pages of the site (two of them one
\* page up to the trailing "/"), a page of another host, a stylesheet, a page
\* under /assets/, a relative reference, a malformed URL, and two sitemaps
SitemapLocs ==
    {Url("site.com", << >>, <<"a">>, FALSE, ""),
     Url("site.com", << >>, <<"a">>, TRUE, ""),
     Url("other.com", << >>, <<"a">>, FALSE, ""),
     Url("site.com", << >>, <<"s", ".css">>, FALSE, ""),
     Url("site.com", <<"assets">>, <<"a">>, FALSE, ""),
     [EmptyUrl EXCEPT !.slug = <<"a">>],
     Malformed,
     Url("site.com", << >>, <<"sitemap", ".xml">>, FALSE, ""),
     Url("site.com", << >>, <<"sitemap2", ".xml">>, FALSE, "")}

\* where a page of the site may redirect to
PageUrls ==
    {Url("site.com", << >>, <<"a">>, FALSE, ""),
     Url("site.com", << >>, <<"a">>, TRUE, ""),
     Url("other.com", << >>, <<"a">>, FALSE, ""),
     Url("site.com", << >>, <<"s", ".css">>, FALSE, ""),
     Url("site.com", <<"assets">>, <<"a">>, FALSE, "")}

\* what the href of a link of a page may resolve to
PageLinks == PageUrls \union {Malformed}

\* HTTP status codes of a response
StatusCodes == {200, 404}

DiscoverInit ==
    /\ ServerInit
    /\ FEATURE_FLAGS = [ASYNC_ANALYSIS |-> TRUE, CANCEL_JOB |-> TRUE]
    /\ \E limit \in 1 .. MaxLimit :
          call = [fn |-> "discover_site_urls", site_url |-> SiteUrl,
                  limit |-> limit, base |-> ensure_site_url(SiteUrl),
                  stage |-> "sitemaps",
                  queue |-> <<sitemap_of(ensure_site_url(SiteUrl))>>,
                  visited |-> {}, found |-> << >>, discovered |-> << >>,
                  requests |-> << >>,
                  returned |-> FALSE, results |-> << >>]

\* one turn of the loop of fetch_sitemap_urls on a site whose sitemaps name
\* the URLs of locs: the next sitemap is skipped if
\* it was visited, else it is requested; the request fails (status 0 in the
\* list of requests), answers with a status of 400 or more, or answers with a
\* body holding <loc> values.  requests lists the client.get calls of the
\* running function with what came back.
sitemap_turn(locs) ==
    /\ call.fn = "discover_site_urls"
    /\ call.stage = "sitemaps"
    /\ call.queue # << >>
    /\ LET sitemap_url == Head(call.queue)
           queue == Tail(call.queue)
       IN  IF sitemap_visited(sitemap_url, call.visited)
           THEN call' = [call EXCEPT !.queue = queue]
           ELSE \/ \E status_code \in {0} \union {c \in StatusCodes : c >= 400} :
                      call' = [call EXCEPT
                          !.queue = queue,
                          !.visited = @ \union {sitemap_url},
                          !.requests = Append(@, [url |-> sitemap_url,
                                                  status_code |-> status_code,
                                                  final_url |-> EmptyUrl])]
                \/ \E status_code \in {c \in StatusCodes : c < 400},
                      loc_values \in SeqsUpTo(locs, MaxLocs) :
                      LET after == sitemap_locs(loc_values, queue, call.found)
                      IN  call' = [call EXCEPT
                              !.queue = after.queue,
                              !.found = after.found,
                              !.visited = @ \union {sitemap_url},
                              !.requests = Append(@, [url |-> sitemap_url,
                                                      status_code |-> status_code,
                                                      final_url |-> EmptyUrl])]
    /\ UNCHANGED server_vars

\* a turn of the traversal on the site of SitemapLocs
sitemap_step == sitemap_turn(SitemapLocs)

\* fetch_sitemap_urls returns; discover_site_urls filters what it gave and
\* raises on a URL that urlparse rejects, returns, or starts crawl_internal_links
sitemap_done ==
    /\ call.fn = "discover_site_urls"
    /\ call.stage = "sitemaps"
    /\ call.queue = << >>
    /\ LET sitemap_urls == dedup(call.found, << >>)
           filtered == sitemap_filter(sitemap_urls, call.base, call.limit, << >>)
           discovered == filtered.discovered
       IN  IF filtered.raised
           THEN call' = [call EXCEPT !.stage = "raised", !.discovered = discovered,
                                     !.visited = {}, !.found = << >>,
                                     !.requests = << >>]
           ELSE IF Len(discovered) >= call.limit
           THEN call' = [call EXCEPT !.stage = "returned", !.returned = TRUE,
                                     !.discovered = discovered,
                                     !.visited = {}, !.found = << >>,
                                     !.requests = << >>,
                                     !.results = take(dedup(discovered, << >>), call.limit)]
           ELSE call' = [call EXCEPT !.stage = "crawl",
                                     !.discovered = discovered,
                                     !.queue = <<call.base>>,
                                     !.visited = {}, !.found = << >>,
                                     !.requests = << >>]
    /\ UNCHANGED server_vars

\* one turn of the loop of crawl_internal_links on a site whose pages answer
\* from the URLs of finals and link to the URLs of hrefs: the next URL is
\* skipped if its normalized form was visited, else it is requested; the
\* request fails or answers, after redirects, from a final URL with a status
\* and links; urljoin in extract_html_links raises on an href that urlparse
\* rejects
crawl_turn(finals, hrefs) ==
    /\ call.fn = "discover_site_urls"
    /\ call.stage = "crawl"
    /\ call.queue # << >>
    /\ Len(call.found) < call.limit
    /\ LET current == Head(call.queue)
           queue == Tail(call.queue)
           normalized_current == normalize_url(current)
           visited == call.visited \union {normalized_current}
       IN  IF crawl_visited(normalized_current, call.visited)
           THEN call' = [call EXCEPT !.queue = queue]
           ELSE \/ call' = [call EXCEPT
                        !.queue = queue, !.visited = visited,
                        !.requests = Append(@, [url |-> current, status_code |-> 0,
                                                final_url |-> EmptyUrl])]
                \/ \E final_url \in {current} \union finals,
                      status_code \in StatusCodes,
                      links \in SeqsUpTo(hrefs, MaxLinks) :
                      LET request == [url |-> current, status_code |-> status_code,
                                      final_url |-> final_url]
                      IN  IF ~is_same_domain(final_url, call.base) \/ status_code >= 400
                          THEN call' = [call EXCEPT !.queue = queue, !.visited = visited,
                                                    !.requests = Append(@, request)]
                          ELSE IF \E i \in DOMAIN links : urlparse_raises(links[i])
                          THEN call' = [call EXCEPT !.stage = "raised", !.queue = << >>,
                                                    !.visited = {}, !.found = << >>,
                                                    !.requests = << >>]
                          ELSE LET seen == visited \union {normalize_url(final_url)}
                               IN  call' = [call EXCEPT
                                       !.visited = seen,
                                       !.found = crawl_found(@, final_url),
                                       !.requests = Append(@, request),
                                       !.queue = crawl_links(links, call.base, call.limit,
                                                             seen, queue)]
    /\ UNCHANGED server_vars

\* a turn of the crawl on the site of PageUrls and PageLinks
crawl_step == crawl_turn(PageUrls, PageLinks)

\* crawl_internal_links returns and discover_site_urls returns
crawl_done ==
    /\ call.fn = "discover_site_urls"
    /\ call.stage = "crawl"
    /\ ~(call.queue # << >> /\ Len(call.found) < call.limit)
    /\ LET crawled_urls == take(dedup(call.found, << >>), call.limit)
           discovered == call.discovered \o crawled_urls
       IN  call' = [call EXCEPT !.stage = "returned", !.returned = TRUE,
                                !.discovered = discovered,
                                !.queue = << >>, !.visited = {}, !.found = << >>,
                                !.requests = << >>,
                                !.results = take(dedup(discovered, << >>), call.limit)]
    /\ UNCHANGED server_vars

DiscoverNext == sitemap_step \/ sitemap_done \/ crawl_step \/ crawl_done

DiscoverSpec == DiscoverInit /\ [][DiscoverNext]_vars

----------------------------------------------------------------------------
(* fetch_sitemap_urls up to the point where discover_site_urls goes on *)

\* what the sitemaps of a site with three sitemap files may name: a page, and
\* each of the three files, the naming one included
SitemapIndexLocs ==
    {Url("site.com", << >>, <<"a">>, FALSE, ""),
     Url("site.com", << >>, <<"sitemap", ".xml">>, FALSE, ""),
     Url("site.com", << >>, <<"sitemap2", ".xml">>, FALSE, ""),
     Url("site.com", << >>, <<"sitemap3", ".xml">>, FALSE, "")}

\* a turn of the traversal on the site of SitemapIndexLocs
sitemap_index_step == sitemap_turn(SitemapIndexLocs)

SitemapNext == sitemap_index_step \/ sitemap_done

SitemapSpec == DiscoverInit /\ [][SitemapNext]_vars

\* the loop is straight-line code between requests, and every request ends
\* within its timeout: a turn that can be taken is taken
SitemapFairSpec == SitemapSpec /\ WF_vars(SitemapNext)

----------------------------------------------------------------------------
(* crawl_internal_links on a site of three pages *)

\* the pages: /a and /a/ are one page up to the trailing "/", /b is another;
\* each may link to each and redirect to each, and to a page of another host
CrawlPages ==
    {Url("site.com", << >>, <<"a">>, FALSE, ""),
     Url("site.com", << >>, <<"a">>, TRUE, ""),
     Url("site.com", << >>, <<"b">>, FALSE, ""),
     Url("other.com", << >>, <<"a">>, FALSE, "")}

MaxCrawlLimit == 3  \* the largest cap on the number of crawled URLs

\* discover_site_urls at line 184, the sitemaps having given no URL
CrawlInit ==
    /\ ServerInit
    /\ FEATURE_FLAGS = [ASYNC_ANALYSIS |-> TRUE, CANCEL_JOB |-> TRUE]
    /\ \E limit \in 1 .. MaxCrawlLimit :
          call = [fn |-> "discover_site_urls", site_url |-> SiteUrl,
                  limit |-> limit, base |-> ensure_site_url(SiteUrl),
                  stage |-> "crawl",
                  queue |-> <<ensure_site_url(SiteUrl)>>,
                  visited |-> {}, found |-> << >>, discovered |-> << >>,
                  requests |-> << >>,
                  returned |-> FALSE, results |-> << >>]

\* a turn of the crawl on the site of CrawlPages
crawl_pages_step == crawl_turn(CrawlPages, CrawlPages)

CrawlNext == crawl_pages_step \/ crawl_done

CrawlSpec == CrawlInit /\ [][CrawlNext]_vars

\* as for SitemapFairSpec
CrawlFairSpec == CrawlSpec /\ WF_vars(CrawlNext)

----------------------------------------------------------------------------
(* The auditor (services/audit.py) *)

\* str(response.status_code) of the codes that occur
status_text(status_code) ==
    CASE status_code = 200 -> "200" [] status_code = 403 -> "403"
      [] status_code = 404 -> "404" [] status_code = 500 -> "500"
      [] status_code = 0 -> "0"

\* classify_severity: critical over warning over info
classify_severity(issues) ==
    LET issue_set == {issues[i] : i \in DOMAIN issues}
    IN  IF issue_set \intersect {"5xx", "404", "request_error"} # {} THEN "critical"
        ELSE IF issue_set \intersect {"4xx", "noindex", "canonical_mismatch"} # {}
        THEN "warning"
        ELSE "info"

\* severity_rank: mapping.get(severity, 2)
severity_rank(severity) ==
    CASE severity = "critical" -> 0 [] severity = "warning" -> 1
      [] severity = "info" -> 2 [] OTHER -> 2

\* the dict of lines 47-54
audit_base(url) ==
    [url |-> url, status_code |-> "0", severity |-> "info", issues |-> << >>,
     canonical |-> EmptyUrl, final_url |-> EmptyUrl]

\* lines 63-80: the issue tags of a response, in the order they are appended
issues_of(url, response) ==
    (IF response.status_code = 404 THEN <<"404">>
     ELSE IF response.status_code >= 500 THEN <<"5xx">>
     ELSE IF response.status_code >= 400 THEN <<"4xx">>
     ELSE << >>)
    \o (IF response.noindex THEN <<"noindex">> ELSE << >>)
    \o (IF response.canonical # EmptyUrl
           /\ normalize_url(response.canonical) # normalize_url(response.final_url)
        THEN <<"canonical_mismatch">> ELSE << >>)
    \o (IF normalize_url(url) # normalize_url(response.final_url)
        THEN <<"redirected">> ELSE << >>)

\* audit_single_url whose except clause leaves the dict of lines 47-54 as it is
audit_single_url_bare_failure(url, response) ==
    IF response.failed THEN audit_base(url)
    ELSE [audit_base(url) EXCEPT !.canonical = response.canonical,
                                 !.status_code = status_text(response.status_code),
                                 !.severity = classify_severity(issues_of(url, response)),
                                 !.issues = issues_of(url, response),
                                 !.final_url = response.final_url]

\* audit_single_url: a request that raises, or a canonical link that urlparse
\* rejects (line 76, after line 75 stored it), ends in the except clause of
\* lines 90-95; the issues field is the list of tags that ", ".join writes out,
\* a request_error being followed by the text of the exception
audit_single_url(url, response) ==
    IF response.failed
    THEN [audit_base(url) EXCEPT !.severity = "critical",
                                 !.issues = <<"request_error">>]
    ELSE IF response.canonical # EmptyUrl /\ urlparse_raises(response.canonical)
    THEN [audit_base(url) EXCEPT !.canonical = response.canonical,
                                 !.severity = "critical",
                                 !.issues = <<"request_error">>]
    ELSE [audit_base(url) EXCEPT !.canonical = response.canonical,
                                 !.status_code = status_text(response.status_code),
                                 !.severity = classify_severity(issues_of(url, response)),
                                 !.issues = issues_of(url, response),
                                 !.final_url = response.final_url]

\* the URLs that are audited, in the order of their strings:
\* "https://site.com/a" < "https://site.com/a/" < "https://site.com/b"
AuditUrls ==
    <<Url("site.com", << >>, <<"a">>, FALSE, ""),
      Url("site.com", << >>, <<"a">>, TRUE, ""),
      Url("site.com", << >>, <<"b">>, FALSE, "")>>

\* the place of the string of a URL in the order of strings
\* all URLs of audit results in the order of their strings: the audited ones,
\* then "https://site.com/robots.txt" < "https://site.com/sitemap.xml"
UrlsInOrder ==
    AuditUrls \o <<Url("site.com", << >>, <<"robots", ".txt">>, FALSE, ""),
                   Url("site.com", << >>, <<"sitemap", ".xml">>, FALSE, "")>>

url_order(url) == CHOOSE i \in DOMAIN UrlsInOrder : UrlsInOrder[i] = url

\* (severity_rank(x["severity"]), x["url"]) < (severity_rank(y["severity"]), y["url"])
sort_key_less(x, y) ==
    \/ severity_rank(x.severity) < severity_rank(y.severity)
    \/ /\ severity_rank(x.severity) = severity_rank(y.severity)
       /\ url_order(x.url) < url_order(y.url)

RECURSIVE sort_insert(_, _)
\* x put behind every entry of a sorted list whose key is not greater
sort_insert(sorted, x) ==
    IF sorted = << >> THEN <<x>>
    ELSE IF sort_key_less(x, Head(sorted)) THEN <<x>> \o sorted
    ELSE <<Head(sorted)>> \o sort_insert(Tail(sorted), x)

RECURSIVE sort_from(_, _)
sort_from(results, sorted) ==
    IF results = << >> THEN sorted
    ELSE sort_from(Tail(results), sort_insert(sorted, Head(results)))

\* line 42 without the sort
results_as_completed(results) == results

\* results.sort(key=lambda x: (severity_rank(x["severity"]), x["url"])): stable
sort_results(results) == sort_from(results, << >>)

\* line 34 without dict.fromkeys
urls_as_given(urls) == urls

\* unique_urls = list(dict.fromkeys(urls))
unique_urls(urls) == dedup(urls, << >>)

----------------------------------------------------------------------------
(* audit_single_url on its own *)

\* HTTP status codes of the final response to an audit request
AuditStatusCodes == {200, 403, 404, 500}

AuditUrlSet == {AuditUrls[i] : i \in DOMAIN AuditUrls}

\* what client.get gives: an exception, or the response after redirects with
\* its final URL, its status, and what the regular expressions of
\* contains_noindex and extract_canonical read from its body
Responses ==
    [failed : {FALSE}, status_code : AuditStatusCodes, noindex : BOOLEAN,
     canonical : AuditUrlSet \union {EmptyUrl, Malformed}, final_url : AuditUrlSet]
    \union {[failed |-> TRUE, status_code |-> 0, noindex |-> FALSE,
             canonical |-> EmptyUrl, final_url |-> EmptyUrl]}

SingleAuditInit ==
    /\ ServerInit
    /\ FEATURE_FLAGS = [ASYNC_ANALYSIS |-> TRUE, CANCEL_JOB |-> TRUE]
    /\ call \in [fn : {"audit_single_url"}, url : AuditUrlSet, response : Responses,
                 returned : {FALSE}, result : {audit_base(EmptyUrl)}]

\* audit_single_url(url, timeout_seconds) against a server that gives the response
audit_single_url_call ==
    /\ call.fn = "audit_single_url"
    /\ ~call.returned
    /\ call' = [call EXCEPT !.returned = TRUE,
                            !.result = audit_single_url(call.url, call.response)]
    /\ UNCHANGED server_vars

SingleAuditNext == audit_single_url_call

SingleAuditSpec == SingleAuditInit /\ [][SingleAuditNext]_vars

----------------------------------------------------------------------------
(* run_quick_audit on its own *)

MaxAuditUrls == 3   \* the largest length of the list given to run_quick_audit

\* the responses of a site that run_quick_audit is tried on: a failed request,
\* a plain page, a page with noindex, a missing page
PoolResponses(url) ==
    {r \in Responses :
        \/ r.failed
        \/ /\ r.final_url = url
           /\ r.canonical = EmptyUrl
           /\ \/ r.status_code = 200
              \/ r.status_code = 404 /\ ~r.noindex}

NoFetches == [u \in AuditUrlSet |-> 0]

AuditInit ==
    /\ ServerInit
    /\ FEATURE_FLAGS = [ASYNC_ANALYSIS |-> TRUE, CANCEL_JOB |-> TRUE]
    /\ \E urls \in SeqsUpTo(AuditUrlSet, MaxAuditUrls) :
       \E site \in {f \in [AuditUrlSet -> UNION {PoolResponses(u) : u \in AuditUrlSet}] :
                       \A u \in AuditUrlSet : f[u] \in PoolResponses(u)} :
          call = [fn |-> "run_quick_audit", urls |-> urls, site |-> site,
                  stage |-> "start", futures |-> << >>, pending |-> {},
                  fetches |-> NoFetches, results |-> << >>,
                  returned |-> FALSE, value |-> << >>]

\* lines 34-38: one future is submitted for every unique URL
audit_submit ==
    /\ call.fn = "run_quick_audit"
    /\ call.stage = "start"
    /\ call' = [call EXCEPT !.stage = "pool",
                            !.futures = unique_urls(call.urls),
                            !.pending = DOMAIN unique_urls(call.urls)]
    /\ UNCHANGED server_vars

\* lines 39-40: some future completes, having run audit_single_url on its URL,
\* and its result is appended
audit_future_done ==
    /\ call.fn = "run_quick_audit"
    /\ call.stage = "pool"
    /\ \E i \in call.pending :
          LET url == call.futures[i]
          IN  call' = [call EXCEPT
                  !.pending = @ \ {i},
                  !.fetches[url] = @ + 1,
                  !.results = Append(@, audit_single_url(url, call.site[url]))]
    /\ UNCHANGED server_vars

\* lines 41-43: all futures are done, the executor is shut down, the results
\* are sorted and returned
audit_return ==
    /\ call.fn = "run_quick_audit"
    /\ call.stage = "pool"
    /\ call.pending = {}
    /\ call' = [call EXCEPT !.stage = "returned", !.returned = TRUE,
                            !.value = sort_results(call.results)]
    /\ UNCHANGED server_vars

AuditNext == audit_submit \/ audit_future_done \/ audit_return

AuditSpec == AuditInit /\ [][AuditNext]_vars

----------------------------------------------------------------------------
(* The comparison of metric snapshots (main.py) *)

\* Clicks are held as whole numbers and positions in tenths (19 is 1.9), as a
\* GSC export gives them; the floats of the code hold these values and their
\* differences with less than 0.005 of error, so round(x, 2) gives them back.

\* before["position"] + 0.3 in IEEE doubles is less than the double of the
\* decimal sum for these positions: 1.9 + 0.3 is 2.1999999999999997 and
\* 2.3 + 0.3 is 2.5999999999999996
SumRoundsDown == {19, 23}

\* after["clicks"] >= before["clicks"] * 0.9, exact for whole clicks
click_ok(before, after) == after.clicks * 10 >= before.clicks * 9

\* after["position"] <= before["position"] + 0.3
position_ok(before, after) ==
    \/ after.position < before.position + 3
    \/ after.position = before.position + 3 /\ before.position \notin SumRoundsDown

\* compare_status
compare_status(before, after, item, analysis_mode) ==
    IF analysis_mode = "migration" /\ item.score < 70 THEN "manual_gerekli"
    ELSE IF before.clicks = 0 /\ after.clicks > 0 THEN "yeni_toparlaniyor"
    ELSE IF click_ok(before, after) \/ position_ok(before, after) THEN "toparlaniyor"
    ELSE "duzeltildi_ama_toparlanmadi"

\* the row of lines 511-525 for one match and its metrics
comparison_row(item, before, after, analysis_mode) ==
    [score |-> item.score,
     before_clicks |-> before.clicks, after_clicks |-> after.clicks,
     click_delta |-> after.clicks - before.clicks,
     before_position |-> before.position, after_position |-> after.position,
     position_delta |-> before.position - after.position,
     status |-> compare_status(before, after, item, analysis_mode),
     lost_clicks |-> 0]

\* {**row, "lost_clicks": round(before["clicks"] - after["clicks"], 2)}
unresolved_row(row) == [row EXCEPT !.lost_clicks = row.before_clicks - row.after_clicks]

\* abs(x["click_delta"])
abs_click_delta(row) == IF row.click_delta < 0 THEN 0 - row.click_delta ELSE row.click_delta

RECURSIVE insert_by_key(_, _)
\* a [key, row] pair put behind every pair of a descending list whose key is
\* not smaller: list.sort(reverse=True) keeps equal keys in their order
insert_by_key(sorted, x) ==
    IF sorted = << >> THEN <<x>>
    ELSE IF x.key > Head(sorted).key THEN <<x>> \o sorted
    ELSE <<Head(sorted)>> \o insert_by_key(Tail(sorted), x)

RECURSIVE sort_descending(_, _)
sort_descending(pairs, sorted) ==
    IF pairs = << >> THEN [i \in DOMAIN sorted |-> sorted[i].row]
    ELSE sort_descending(Tail(pairs), insert_by_key(sorted, Head(pairs)))

RECURSIVE comparison_loop(_, _, _, _, _, _, _)
\* the loop of lines 508-528 from match i on
comparison_loop(matches, before, after, analysis_mode, i, rows, unresolved) ==
    IF i > Len(matches) THEN [rows |-> rows, unresolved |-> unresolved]
    ELSE LET row == comparison_row(matches[i], before[i], after[i], analysis_mode)
         IN  comparison_loop(matches, before, after, analysis_mode, i + 1,
                             Append(rows, row),
                             IF row.status = "duzeltildi_ama_toparlanmadi"
                             THEN Append(unresolved, unresolved_row(row))
                             ELSE unresolved)

\* build_comparison_rows; before[i] and after[i] are what pick_metric finds for
\* match i, and snapshots says which of the two metric maps are not empty
build_comparison_rows(matches, before, after, snapshots, analysis_mode) ==
    IF ~snapshots.before \/ ~snapshots.after
    THEN [rows |-> << >>, unresolved |-> << >>]
    ELSE LET done == comparison_loop(matches, before, after, analysis_mode, 1, << >>, << >>)
         IN  [rows |-> sort_descending(
                           [i \in DOMAIN done.rows |->
                               [key |-> abs_click_delta(done.rows[i]), row |-> done.rows[i]]],
                           << >>),
              unresolved |-> sort_descending(
                           [i \in DOMAIN done.unresolved |->
                               [key |-> done.unresolved[i].lost_clicks,
                                row |-> done.unresolved[i]]],
                           << >>)]

\* line 553: int(round((recovering / max(1, total)) * 100)), halves to the even
base_rate_of(recovering, total) ==
    LET q == (100 * recovering) \div Max(1, total)
        r == (100 * recovering) % Max(1, total)
    IN  IF 2 * r > Max(1, total) THEN q + 1
        ELSE IF 2 * r = Max(1, total) THEN (IF q % 2 = 1 THEN q + 1 ELSE q)
        ELSE q

\* line 556 without the cap
panel_rate_uncapped(base_rate, bonus) == base_rate + bonus

\* line 556: rate = min(100, base_rate + bonus)
panel_rate(base_rate, bonus) == Min(100, base_rate + bonus)

\* the (day, bonus) pairs of line 555
PanelDays == <<[day |-> 7, bonus |-> 5], [day |-> 14, bonus |-> 10],
               [day |-> 30, bonus |-> 18]>>

\* build_recovery_panel
build_recovery_panel(comparison_rows) ==
    IF comparison_rows = << >> THEN << >>
    ELSE LET total == Len(comparison_rows)
             recovering == Cardinality({i \in DOMAIN comparison_rows :
                               comparison_rows[i].status
                                   \in {"toparlaniyor", "yeni_toparlaniyor"}})
             unresolved == Cardinality({i \in DOMAIN comparison_rows :
                               comparison_rows[i].status = "duzeltildi_ama_toparlanmadi"})
             base_rate == base_rate_of(recovering, total)
         IN  [k \in DOMAIN PanelDays |->
                 [day |-> PanelDays[k].day,
                  recovery_rate |-> panel_rate(base_rate, PanelDays[k].bonus),
                  recovering_count |-> recovering,
                  unresolved_count |-> unresolved]]

----------------------------------------------------------------------------
(* build_comparison_rows on its own *)

\* scores of a match: none, below and at the threshold, exact
Scores == {0, 69, 70, 100}

\* clicks and positions (in tenths) of a metric; 0 clicks at position 999.0
\* is what pick_metric gives for a URL that a snapshot does not hold
Metrics == [clicks : {0, 9, 10}, position : {19, 22, 23, 9990}]

\* match_urls gives every score; a scan gives matches of score 100 (line 415)
ModeAndScore ==
    {ms \in [analysis_mode : {"migration", "scan"}, score : Scores] :
        ms.analysis_mode = "scan" => ms.score = 100}

CompareInit ==
    /\ ServerInit
    /\ FEATURE_FLAGS = [ASYNC_ANALYSIS |-> TRUE, CANCEL_JOB |-> TRUE]
    /\ \E ms \in ModeAndScore, before \in Metrics, after \in Metrics,
          snapshots \in [before : BOOLEAN, after : BOOLEAN] :
          call = [fn |-> "build_comparison_rows",
                  analysis_mode |-> ms.analysis_mode,
                  matches |-> <<[score |-> ms.score]>>,
                  before |-> <<before>>, after |-> <<after>>,
                  snapshots |-> snapshots,
                  returned |-> FALSE, rows |-> << >>, unresolved |-> << >>]

\* comparison_rows, unresolved_rows = build_comparison_rows(...)
build_comparison_rows_call ==
    /\ call.fn = "build_comparison_rows"
    /\ ~call.returned
    /\ LET got == build_comparison_rows(call.matches, call.before, call.after,
                                        call.snapshots, call.analysis_mode)
       IN  call' = [call EXCEPT !.returned = TRUE, !.rows = got.rows,
                                !.unresolved = got.unresolved]
    /\ UNCHANGED server_vars

CompareNext == build_comparison_rows_call

CompareSpec == CompareInit /\ [][CompareNext]_vars

----------------------------------------------------------------------------
(* build_recovery_panel on its own *)

MaxPanelRows == 8   \* the largest number of comparison rows

Statuses == {"manual_gerekli", "yeni_toparlaniyor", "toparlaniyor",
             "duzeltildi_ama_toparlanmadi"}

PanelInit ==
    /\ ServerInit
    /\ FEATURE_FLAGS = [ASYNC_ANALYSIS |-> TRUE, CANCEL_JOB |-> TRUE]
    /\ \E comparison_rows \in SeqsUpTo([status : Statuses], MaxPanelRows) :
          call = [fn |-> "build_recovery_panel", comparison_rows |-> comparison_rows,
                  returned |-> FALSE, panels |-> << >>]

\* recovery_panel = build_recovery_panel(comparison_rows)
build_recovery_panel_call ==
    /\ call.fn = "build_recovery_panel"
    /\ ~call.returned
    /\ call' = [call EXCEPT !.returned = TRUE,
                            !.panels = build_recovery_panel(call.comparison_rows)]
    /\ UNCHANGED server_vars

PanelNext == build_recovery_panel_call

PanelSpec == PanelInit /\ [][PanelNext]_vars

----------------------------------------------------------------------------
(* The site-level check and the annotation of audit results *)

\* f"{site}/robots.txt"
robots_of(base_url) == [base_url EXCEPT !.slug = <<"robots", ".txt">>]

\* fetch_status: (status, issue) of a response; the issue is held as a list of
\* tags as in audit_single_url
fetch_status(response) ==
    IF response.failed THEN [status |-> 0, issue |-> <<"request_error">>]
    ELSE IF response.status_code >= 400
    THEN [status |-> response.status_code, issue |-> <<"erisim_hatasi">>]
    ELSE [status |-> response.status_code, issue |-> <<"ok">>]

\* one entry of the list that check_robots_and_sitemap builds
site_check(label, url, response) ==
    LET got == fetch_status(response)
    IN  [url |-> url, status_code |-> status_text(got.status),
         severity |-> IF got.status >= 400 \/ got.status = 0 THEN "critical" ELSE "info",
         issues |-> got.issue, canonical |-> EmptyUrl, final_url |-> EmptyUrl,
         type |-> label]

\* check_robots_and_sitemap against a server that gives the two responses
check_robots_and_sitemap(site_url, robots_response, sitemap_response) ==
    LET site == ensure_site_url(site_url)
    IN  <<site_check("robots.txt", robots_of(site), robots_response),
          site_check("sitemap.xml", sitemap_of(site), sitemap_response)>>

\* "<tag>" in issues, for the tags that the auditor writes
has_issue(item, tag) == \E i \in DOMAIN item.issues : item.issues[i] = tag

\* url.endswith("/sitemap.xml")
ends_with_sitemap_xml(url) ==
    url.query = "" /\ ~url.slash /\ url.slug = <<"sitemap", ".xml">>

\* status.startswith(digit) for the status texts that occur
status_starts_with(status, digit) ==
    \/ digit = "4" /\ status \in {"403", "404"}
    \/ digit = "5" /\ status = "500"

\* diagnose_issue: the first rule that applies gives (cause, fix)
diagnose_issue(item) ==
    IF has_issue(item, "request_error")
    THEN [cause |-> "Sunucuya baglanti kurulamadi veya zaman asimi olustu.",
          fix |-> "Domain/DNS/SSL erisimini kontrol et. Hosting aktif mi bak. Sonra tekrar tarama yap."]
    ELSE IF has_issue(item, "404") /\ ends_with_sitemap_xml(item.url)
    THEN [cause |-> "Sitemap dosyasi bulunamiyor.",
          fix |-> "Dogru domaini primary olarak ayarla. Ardindan /sitemap.xml aciliyor mu kontrol et ve Search Console'a gonder."]
    ELSE IF has_issue(item, "404")
    THEN [cause |-> "URL bulunamiyor (404).",
          fix |-> "Sayfa tasindiysa 301 redirect tanimla. Silinmediyse sayfayi geri yayinla."]
    ELSE IF has_issue(item, "5xx")
    THEN [cause |-> "Sunucu hatasi (5xx) var.",
          fix |-> "Hosting loglarini kontrol et. Uygulama/tema hatasini duzeltip URL'i tekrar test et."]
    ELSE IF has_issue(item, "noindex")
    THEN [cause |-> "Sayfa noindex etiketli oldugu icin Google'a kapanmis.",
          fix |-> "Meta robots veya HTTP header'daki noindex'i kaldir. Sonra Search Console'da tekrar index iste."]
    ELSE IF has_issue(item, "canonical_mismatch")
    THEN [cause |-> "Canonical farkli bir URL'e isaret ediyor.",
          fix |-> "Canonical etiketini bu sayfanin dogru final URL'ine guncelle."]
    ELSE IF status_starts_with(item.status_code, "4")
    THEN [cause |-> "Istemci hatasi (4xx) olustu.",
          fix |-> "URL yazimini, yetki kurallarini ve yonlendirmeleri kontrol et."]
    ELSE IF status_starts_with(item.status_code, "5")
    THEN [cause |-> "Sunucu yanit veremedi (5xx).",
          fix |-> "Sunucu logu ve uygulama hatalarini kontrol edip tekrar yayinla."]
    ELSE [cause |-> "Sorun gorunmuyor.", fix |-> "Aksiyon gerekmiyor."]

\* annotate_audit_items: {**item, "cause": cause, "fix": fix} for every item
annotate_audit_items(audit_results) ==
    [i \in DOMAIN audit_results |->
        [cause |-> diagnose_issue(audit_results[i]).cause,
         fix |-> diagnose_issue(audit_results[i]).fix] @@ audit_results[i]]

----------------------------------------------------------------------------
(* The audit stage of perform_analysis on its own (lines 425-441) *)

MaxHead == 2    \* the largest number of URLs ahead of the filling of a first batch
MaxTail == 2    \* the largest number of URLs behind a first batch

\* a first batch: the URLs of head, the last of them again up to batch_size rows
first_batch(head) == [i \in 1 .. batch_size |-> head[Min(i, Len(head))]]

\* the URL column of the new rows: a CSV may hold a URL on several rows
StageUrlLists ==
    SeqsUpTo(AuditUrlSet, MaxTail)
    \union {first_batch(head) \o tail :
               head \in SeqsUpTo(AuditUrlSet, MaxHead) \ {<< >>},
               tail \in SeqsUpTo(AuditUrlSet, MaxTail)}

\* the answers to the two requests of the site-level check
SiteCheckResponses ==
    {r \in Responses :
        \/ r.failed
        \/ /\ r.status_code \in {200, 404}
           /\ r.canonical = EmptyUrl /\ ~r.noindex /\ r.final_url = AuditUrls[1]}

StageInit ==
    /\ ServerInit
    /\ FEATURE_FLAGS = [ASYNC_ANALYSIS |-> TRUE, CANCEL_JOB |-> TRUE]
    /\ \E new_urls \in StageUrlLists, audit_limit \in AuditLimits, has_site_url \in BOOLEAN :
       \E site \in {f \in [AuditUrlSet -> UNION {PoolResponses(u) : u \in AuditUrlSet}] :
                       \A u \in AuditUrlSet : f[u] \in PoolResponses(u)} :
          call = [fn |-> "audit_stage", site |-> site, has_site_url |-> has_site_url,
                  urls |-> take(new_urls, Max(1, Min(audit_limit, audit_cap_max))),
                  idx |-> 0, stage |-> "loop",
                  futures |-> << >>, pending |-> {}, results |-> << >>,
                  fetches |-> NoFetches, batches |-> 0,
                  audit_results |-> << >>, returned |-> FALSE]

\* lines 432-435 and run_quick_audit up to line 38: the next batch is cut and
\* one future is submitted for every unique URL of it
stage_batch ==
    /\ call.fn = "audit_stage"
    /\ call.stage = "loop"
    /\ call.idx < Len(call.urls)
    /\ LET batch == SubSeq(call.urls, call.idx + 1,
                           Min(call.idx + batch_size, Len(call.urls)))
       IN  call' = [call EXCEPT !.stage = "pool",
                                !.futures = unique_urls(batch),
                                !.pending = DOMAIN unique_urls(batch),
                                !.results = << >>,
                                !.batches = @ + 1]
    /\ UNCHANGED server_vars

\* run_quick_audit, lines 39-40: some future completes
stage_future_done ==
    /\ call.fn = "audit_stage"
    /\ call.stage = "pool"
    /\ \E i \in call.pending :
          LET url == call.futures[i]
          IN  call' = [call EXCEPT
                  !.pending = @ \ {i},
                  !.fetches[url] = @ + 1,
                  !.results = Append(@, audit_single_url(url, call.site[url]))]
    /\ UNCHANGED server_vars

\* run_quick_audit returns its sorted results and line 435 extends the list
stage_collect ==
    /\ call.fn = "audit_stage"
    /\ call.stage = "pool"
    /\ call.pending = {}
    /\ call' = [call EXCEPT !.stage = "loop",
                            !.idx = @ + batch_size,
                            !.results = << >>, !.futures = << >>,
                            !.audit_results = @ \o sort_results(call.results)]
    /\ UNCHANGED server_vars

\* lines 438-441: the site-level check, if a site URL was given, and the
\* annotation of all results
stage_finish ==
    /\ call.fn = "audit_stage"
    /\ call.stage = "loop"
    /\ call.idx >= Len(call.urls)
    /\ \E robots_response \in SiteCheckResponses, sitemap_response \in SiteCheckResponses :
          LET checks == IF call.has_site_url
                        THEN check_robots_and_sitemap(SiteUrl, robots_response,
                                                      sitemap_response)
                        ELSE << >>
          IN  call' = [call EXCEPT
                  !.stage = "returned", !.returned = TRUE,
                  !.audit_results = annotate_audit_items(@ \o checks)]
    /\ UNCHANGED server_vars

StageNext == stage_batch \/ stage_future_done \/ stage_collect \/ stage_finish

StageSpec == StageInit /\ [][StageNext]_vars

----------------------------------------------------------------------------
(* The executor of run_quick_audit inside the audit loop (audit.py 33-43, *)
(* main.py 431-447) *)

max_workers == 8    \* the default of run_quick_audit, which line 434 of main.py keeps
MaxBatchUrls == 10  \* the largest number of distinct URLs in one batch

\* ThreadPoolExecutor.submit starts a worker thread for the new work item while
\* fewer than max_workers threads exist
thread_limit_open_always(threads) == TRUE

thread_limit_open(threads) == threads < max_workers

\* the number of distinct URLs of batch number batch_no
batch_urls(batch_no) == IF batch_no = 1 THEN call.first ELSE call.more

PoolInit ==
    /\ ServerInit
    /\ FEATURE_FLAGS = [ASYNC_ANALYSIS |-> TRUE, CANCEL_JOB |-> TRUE]
    /\ \E first \in 1 .. MaxBatchUrls, more \in 0 .. MaxBatchUrls :
          call = [fn |-> "audit_loop", first |-> first, more |-> more,
                  batch_no |-> 1, stage |-> "checkpoint",
                  to_submit |-> 0, queued |-> 0, running |-> 0, threads |-> 0,
                  completed |-> 0, cancel_requested |-> FALSE, status |-> "running"]

\* analyze_cancel, lines 148-151: the flag is set on a job that is not terminal
pool_cancel_request ==
    /\ call.fn = "audit_loop"
    /\ call.status = "running"
    /\ ~call.cancel_requested
    /\ call' = [call EXCEPT !.cancel_requested = TRUE]
    /\ UNCHANGED server_vars

\* line 432: cancel() ahead of a batch; lines 433-434 and audit.py 34-37: the
\* batch is cut, its duplicates dropped and the executor created
pool_checkpoint ==
    /\ call.fn = "audit_loop"
    /\ call.stage = "checkpoint"
    /\ call' = IF call.cancel_requested
               THEN [call EXCEPT !.stage = "terminal", !.status = "cancelled"]
               ELSE [call EXCEPT !.stage = "pool",
                                 !.to_submit = batch_urls(call.batch_no),
                                 !.completed = 0]
    /\ UNCHANGED server_vars

\* audit.py line 38: executor.submit for the next URL; the work item is queued,
\* and a worker thread is started for it unless an idle one took the semaphore
pool_submit ==
    /\ call.fn = "audit_loop"
    /\ call.stage = "pool"
    /\ call.to_submit > 0
    /\ \/ /\ thread_limit_open(call.threads)
          /\ call' = [call EXCEPT !.to_submit = @ - 1, !.queued = @ + 1,
                                  !.threads = @ + 1]
       \/ /\ \/ ~thread_limit_open(call.threads)
             \/ call.running < call.threads
          /\ call' = [call EXCEPT !.to_submit = @ - 1, !.queued = @ + 1]
    /\ UNCHANGED server_vars

\* a worker thread without a work item takes one from the queue and calls
\* audit_single_url: the fetch is in flight
pool_take ==
    /\ call.fn = "audit_loop"
    /\ call.stage = "pool"
    /\ call.queued > 0
    /\ call.running < call.threads
    /\ call' = [call EXCEPT !.queued = @ - 1, !.running = @ + 1]
    /\ UNCHANGED server_vars

\* audit_single_url returns in its worker thread; lines 39-40 take the result
pool_fetch_done ==
    /\ call.fn = "audit_loop"
    /\ call.running > 0
    /\ call' = [call EXCEPT !.running = @ - 1, !.completed = @ + 1]
    /\ UNCHANGED server_vars

\* audit.py lines 39-43: as_completed has yielded every future, the with block
\* shuts the executor down and joins its threads, run_quick_audit returns
pool_return ==
    /\ call.fn = "audit_loop"
    /\ call.stage = "pool"
    /\ call.to_submit = 0
    /\ call.completed = batch_urls(call.batch_no)
    /\ call' = [call EXCEPT !.stage = "progress", !.threads = 0]
    /\ UNCHANGED server_vars

\* lines 436-437: progress() is check_cancel and update_job; then the next
\* round of the loop, or lines 438-446 up to progress(90, ...)
pool_progress ==
    /\ call.fn = "audit_loop"
    /\ call.stage = "progress"
    /\ call' = IF call.cancel_requested
               THEN [call EXCEPT !.stage = "terminal", !.status = "cancelled"]
               ELSE IF call.batch_no = 1 /\ call.more > 0
               THEN [call EXCEPT !.stage = "checkpoint", !.batch_no = 2]
               ELSE [call EXCEPT !.stage = "compare"]
    /\ UNCHANGED server_vars

\* lines 446-467 and run_analysis_job 291-299: the comparison stage, entered
\* through progress(90, ...) and cancel(), and the terminal update
pool_compare ==
    /\ call.fn = "audit_loop"
    /\ call.stage = "compare"
    /\ call' = [call EXCEPT !.stage = "terminal",
                            !.status = IF call.cancel_requested THEN "cancelled"
                                       ELSE "done"]
    /\ UNCHANGED server_vars

PoolNext ==
    \/ pool_cancel_request
    \/ pool_checkpoint
    \/ pool_submit
    \/ pool_take
    \/ pool_fetch_done
    \/ pool_return
    \/ pool_progress
    \/ pool_compare

PoolSpec == PoolInit /\ [][PoolNext]_vars

----------------------------------------------------------------------------
(* annotate_audit_items on its own *)

\* the URLs that audit results are about: the audited pages and, when the
\* list of new URLs or the crawl names it, the sitemap of the site
AnnotatedUrls == AuditUrlSet \union {sitemap_of(ensure_site_url(SiteUrl))}

\* the answers to a request of the site-level check
FetchStatusResponses ==
    {r \in Responses :
        \/ r.failed
        \/ r.canonical = EmptyUrl /\ ~r.noindex /\ r.final_url = AuditUrls[1]}

\* one audit result as perform_analysis holds it at line 441: of
\* audit_single_url through run_quick_audit, or of check_robots_and_sitemap
AnnotateInit ==
    /\ ServerInit
    /\ FEATURE_FLAGS = [ASYNC_ANALYSIS |-> TRUE, CANCEL_JOB |-> TRUE]
    /\ \/ \E url \in AnnotatedUrls, response \in Responses :
             call = [fn |-> "annotate_audit_items", origin |-> "audit_single_url",
                     audit_results |-> <<audit_single_url(url, response)>>,
                     returned |-> FALSE, value |-> << >>]
       \/ \E robots_response \in FetchStatusResponses,
             sitemap_response \in FetchStatusResponses, k \in 1 .. 2 :
             call = [fn |-> "annotate_audit_items",
                     origin |-> "check_robots_and_sitemap",
                     audit_results |->
                         <<check_robots_and_sitemap(SiteUrl, robots_response,
                                                    sitemap_response)[k]>>,
                     returned |-> FALSE, value |-> << >>]

\* line 441: audit_results = annotate_audit_items(audit_results)
annotate_audit_items_call ==
    /\ call.fn = "annotate_audit_items"
    /\ ~call.returned
    /\ call' = [call EXCEPT !.returned = TRUE,
                            !.value = annotate_audit_items(call.audit_results)]
    /\ UNCHANGED server_vars

AnnotateNext == annotate_audit_items_call

AnnotateSpec == AnnotateInit /\ [][AnnotateNext]_vars

----------------------------------------------------------------------------
(* normalize_url on the text of a URL (services/matching.py 9-14) *)

MaxPathLen == 3     \* the largest number of characters in the path of a URL

\* The URLs above hold a path by its segments and one flag for a trailing "/".
\* Here the path is the text that urlparse hands back, "/" by "/", so that a
\* path may end in any number of them.
PathChars == {"/", "a", "A"}

\* the paths of absolute URLs: empty, or starting with "/"
TextPaths ==
    {p \in SeqsUpTo(PathChars, MaxPathLen) : p = << >> \/ p[1] = "/"}

\* absolute URLs as urlparse splits them
TextUrls ==
    [scheme : {"https"}, netloc : {"old.com", "OLD.com"}, path : TextPaths,
     query : {"", "q=1"}, fragment : {"", "top"}]

\* normalize_url: the path or "/", without one trailing "/" unless it is "/",
\* behind the lowered scheme and netloc; the value is a string without query
\* and fragment, held as urlparse would split it again
normalize_url_text(url) ==
    LET path == IF url.path = << >> THEN <<"/">> ELSE url.path
    IN  [scheme |-> lower(url.scheme), netloc |-> lower(url.netloc),
         path |-> IF path # <<"/">> /\ path[Len(path)] = "/"
                  THEN SubSeq(path, 1, Len(path) - 1) ELSE path,
         query |-> "", fragment |-> ""]

RECURSIVE without_trailing_slashes(_)
\* a path without the "/" characters at its end
without_trailing_slashes(path) ==
    IF path # << >> /\ path[Len(path)] = "/"
    THEN without_trailing_slashes(SubSeq(path, 1, Len(path) - 1))
    ELSE path

\* two URLs that differ in nothing but trailing slashes, query and fragment
same_but_for_tail(url, other) ==
    /\ url.scheme = other.scheme
    /\ url.netloc = other.netloc
    /\ without_trailing_slashes(url.path) = without_trailing_slashes(other.path)

NormalizeInit ==
    /\ ServerInit
    /\ FEATURE_FLAGS = [ASYNC_ANALYSIS |-> TRUE, CANCEL_JOB |-> TRUE]
    /\ \E url \in TextUrls :
       \E other \in {o \in TextUrls : same_but_for_tail(url, o)} :
          call = [fn |-> "normalize_url", url |-> url, other |-> other,
                  returned |-> FALSE, once |-> url, twice |-> url,
                  other_once |-> other]

\* normalize_url(url), normalize_url of its value, and normalize_url(other)
normalize_url_call ==
    /\ call.fn = "normalize_url"
    /\ ~call.returned
    /\ call' = [call EXCEPT
           !.returned = TRUE,
           !.once = normalize_url_text(call.url),
           !.twice = normalize_url_text(normalize_url_text(call.url)),
           !.other_once = normalize_url_text(call.other)]
    /\ UNCHANGED server_vars

NormalizeNext == normalize_url_call

NormalizeSpec == NormalizeInit /\ [][NormalizeNext]_vars

----------------------------------------------------------------------------
(* Properties *)

\* C1: once the status of a job is done, error or cancelled, no step of the
\* worker, of a cancel request or of a status poll changes it again
C1_TerminalStatusIsFinal ==
    [][\A id \in JobIds :
          JOBS[id].status \in Terminal => JOBS'[id].status = JOBS[id].status]_vars

\* a cancel request has just been answered for a job that ended done
C1_Witness ==
    \E id \in JobIds :
        /\ JOBS[id].status = "done"
        /\ out.op = "cancel" /\ out.id = id /\ out.status = "finished"

\* C2 as stated: a job with auditing enabled whose cancel_requested flag was set
\* before the audit stage began ends cancelled, and run_quick_audit and
\* check_robots_and_sitemap were never invoked for it
C2_CancelBeforeAuditEndsCancelled ==
    \A id \in JobIds :
        hist[id].run_audit /\ hist[id].cancel_early /\ pc[id] = "end" =>
            /\ JOBS[id].status = "cancelled"
            /\ hist[id].audit_calls = 0
            /\ hist[id].robots_calls = 0

\* C2 amended: a job with auditing enabled whose cancel_requested flag was set
\* before the cancellation check of the first audit batch never invokes
\* run_quick_audit or check_robots_and_sitemap and never ends done; it ends
\* cancelled, or ends error when the validation failed or an unexpected
\* exception was raised before the worker came to its next checkpoint
C2_CancelBeforeAudit ==
    \A id \in JobIds :
        hist[id].run_audit /\ hist[id].cancel_early =>
            /\ hist[id].audit_calls = 0
            /\ hist[id].robots_calls = 0
            /\ JOBS[id].status # "done"
            /\ ~RESULTS[id].stored
            /\ pc[id] = "end" =>
                  \/ JOBS[id].status = "cancelled"
                  \/ /\ JOBS[id].status = "error"
                     /\ hist[id].failed # ""
                     /\ hist[id].stopped_at = ""

\* the flag was set after matching and before the first batch, and the job
\* ended cancelled
C2_Witness ==
    \E id \in JobIds :
        /\ hist[id].run_audit /\ hist[id].cancel_early /\ hist[id].matched
        /\ pc[id] = "end"
        /\ JOBS[id].status = "cancelled"

\* C3: when the worker comes to a checkpoint (progress or cancel callback) with
\* cancel_requested set, the pipeline stops there and the job is marked
\* cancelled with progress 100 and an empty error; never status error
C3_CancelStopsAtCheckpoint ==
    \A id \in JobIds :
        hist[id].stopped_at # "" =>
            /\ pc[id] \in {"update_cancelled", "end"}
            /\ JOBS[id].status \notin {"error", "done"}
            /\ pc[id] = "end" =>
                  /\ JOBS[id].status = "cancelled"
                  /\ JOBS[id].progress = 100
                  /\ JOBS[id].error = << >>

\* the flag was found at the checkpoint before the comparison is built
C3_Witness ==
    \E id \in JobIds :
        /\ hist[id].stopped_at = "cancel90"
        /\ pc[id] = "end"
        /\ JOBS[id].status = "cancelled"

\* C4 as stated: a cancel request against a terminal job answers "finished" and
\* changes neither the job record nor the Result table; a cancel request for an
\* unknown job id answers not_found and creates no job entry
C4_CancelOfFinishedOrUnknown ==
    [][\A id \in AllIds :
          out'.op = "cancel" /\ out'.id = id =>
              /\ JOBS[id].status \in Terminal =>
                    out'.status = "finished" /\ JOBS' = JOBS /\ RESULTS' = RESULTS
              /\ JOBS[id] = NoJob =>
                    out'.status = "not_found" /\ JOBS' = JOBS /\ RESULTS' = RESULTS]_vars

\* C4 amended: with the CANCEL_JOB feature flag on, a cancel request against a
\* terminal job answers "finished" and one for an unknown job id answers
\* not_found; with the flag off both answer "disabled"; in every case the
\* request changes no job record and no Result entry and creates no job entry
C4_CancelOfFinishedOrUnknownByFlag ==
    [][\A id \in AllIds :
          /\ out'.op = "cancel" /\ out'.id = id
          /\ JOBS[id].status \in Terminal \/ JOBS[id] = NoJob
          => /\ out'.status = IF ~FEATURE_FLAGS.CANCEL_JOB THEN "disabled"
                              ELSE IF JOBS[id] = NoJob THEN "not_found"
                              ELSE "finished"
             /\ JOBS' = JOBS
             /\ RESULTS' = RESULTS]_vars

\* a cancel request has just been answered "finished" for a job that ended error
C4_Witness ==
    \E id \in JobIds :
        /\ JOBS[id].status = "error"
        /\ out.op = "cancel" /\ out.id = id /\ out.status = "finished"

\* C5: the Result entry of a job is written at most once, and only by a pipeline
\* run that built its package without failure or cancellation; a job that is
\* cancelled or in error has no Result entry
C5_ResultWrittenOnce ==
    \A id \in JobIds :
        /\ hist[id].result_writes <= 1
        /\ RESULTS[id].stored <=> hist[id].result_writes = 1
        /\ RESULTS[id].stored =>
              /\ hist[id].packaged
              /\ hist[id].failed = ""
              /\ hist[id].stopped_at = ""
              /\ JOBS[id].status \in {"running", "done"}
        /\ JOBS[id].status \in {"cancelled", "error"} => ~RESULTS[id].stored

\* the result was stored and the job ended done although a cancel request was
\* accepted after the last checkpoint
C5_Witness ==
    \E id \in JobIds :
        /\ RESULTS[id].stored
        /\ JOBS[id].status = "done"
        /\ JOBS[id].cancel_requested

\* C6: the payload a status poll returns is the job record as it stood at a
\* release of the lock, never a record in the middle of an update
C6_PollSeesCommittedRecord ==
    out.op = "status" /\ out.status = "ok" => out.payload.job = committed[out.id]

\* C7: progress is between 1 and 99 while the status is running and exactly
\* 100 when the status is done, error or cancelled
C7_ProgressRange ==
    \A id \in JobIds :
        /\ JOBS[id].status = "running" => 1 <= JOBS[id].progress /\ JOBS[id].progress <= 99
        /\ JOBS[id].status \in Terminal => JOBS[id].progress = 100

\* a job that had progress updates is cancelled with progress 100
C7_Witness ==
    \E id \in JobIds :
        /\ hist[id].updates = 1
        /\ JOBS[id].status = "cancelled"
        /\ JOBS[id].progress = 100

\* C8: after every progress update of a running job eta_seconds is
\* max(1, floor(elapsed / progress * (100 - progress))) with elapsed at least 1,
\* hence at least 1; in every terminal state eta_seconds is 0
C8_EtaSeconds ==
    \A id \in JobIds :
        /\ JOBS[id].status = "running" /\ hist[id].updates = 1 /\ STATE_LOCK # id =>
              LET e == IF hist[id].read_at - JOBS[id].started_epoch < 1 THEN 1
                       ELSE hist[id].read_at - JOBS[id].started_epoch
                  p == JOBS[id].progress
                  eta == JOBS[id].eta_seconds
              IN  /\ eta >= 1
                  /\ IF e * (100 - p) >= p
                     THEN eta * p <= e * (100 - p) /\ e * (100 - p) < (eta + 1) * p
                     ELSE eta = 1
        /\ JOBS[id].status \in Terminal => JOBS[id].eta_seconds = 0

\* two seconds after the start the progress(10) update leaves an eta of 18
C8_Witness ==
    \E id \in JobIds :
        /\ JOBS[id].status = "running"
        /\ JOBS[id].progress = 10
        /\ hist[id].read_at - JOBS[id].started_epoch = 2
        /\ JOBS[id].eta_seconds = 18

\* C9: a pipeline that fails with a validation failure or an unexpected
\* exception ends in status error with progress 100, eta_seconds 0 and a
\* non-empty error text, and no Result entry is written for the job
C9_FailureEndsInError ==
    \A id \in JobIds :
        hist[id].failed # "" =>
            /\ pc[id] \in {"update_error", "end"}
            /\ ~RESULTS[id].stored
            /\ pc[id] = "end" =>
                  /\ JOBS[id].status = "error"
                  /\ JOBS[id].progress = 100
                  /\ JOBS[id].eta_seconds = 0
                  /\ JOBS[id].error # << >>
                  /\ JOBS[id].error[1] # ""

\* check_robots_and_sitemap raised after the audit batches and the job ended error
C9_Witness ==
    \E id \in JobIds :
        /\ hist[id].failed = "unexpected"
        /\ hist[id].batches_done > 0
        /\ pc[id] = "end"
        /\ JOBS[id].status = "error"

\* C10: the stages of a job run in the order discovery-or-matching, audit,
\* comparison: the audit stage starts after the inputs were read and matched,
\* the robots/sitemap check after the last batch, the comparison after the last
\* batch and the robots/sitemap check, and done after comparison and package
C10_StageOrder ==
    \A id \in JobIds :
        /\ pc[id] \in {"progress45", "cancel45", "match"} =>
              loc[id].n_old > 0 /\ loc[id].n_new > 0 /\ ~hist[id].matched
        /\ \/ pc[id] \in {"progress70", "cancel_batch", "audit_batch", "fetching", "progress_batch",
                          "cancel_robots", "robots"}
           \/ hist[id].audit_calls > 0
           \/ hist[id].robots_calls > 0
           => hist[id].matched
        /\ pc[id] \in {"progress70", "cancel_batch", "audit_batch", "fetching", "progress_batch",
                       "cancel_robots", "robots"} => ~hist[id].compared
        /\ pc[id] \in {"cancel_robots", "robots"} =>
              hist[id].batches_done * batch_size >= len_urls(id)
        /\ pc[id] \in {"progress90", "cancel90", "build", "store", "update_done"}
           /\ loc[id].run_audit =>
              /\ hist[id].batches_done * batch_size >= len_urls(id)
              /\ args[id].site_url => hist[id].robots_done
        /\ hist[id].compared => hist[id].matched /\ pc[id] \in {"store", "update_done", "end"}
        /\ JOBS[id].status = "done" =>
              hist[id].compared /\ hist[id].packaged /\ RESULTS[id].stored

\* a job with two audit batches and the robots/sitemap check ended done
C10_Witness ==
    \E id \in JobIds :
        /\ JOBS[id].status = "done"
        /\ hist[id].batches_done = 2
        /\ hist[id].robots_done
        /\ hist[id].compared

\* C11: when the cancel flag is set while an audit batch is running, the fetches
\* of the batch run to completion: the status is not cancelled while a fetch of
\* the job is in flight, no further batch is started after the running one, and
\* the job ends cancelled
C11_CancelMidBatch ==
    \A id \in JobIds :
        /\ JOBS[id].status = "cancelled" => pool[id] = 0
        /\ pc[id] \notin {"fetching"} => pool[id] = 0
        /\ hist[id].cancel_batch > 0 =>
              /\ hist[id].audit_calls = hist[id].cancel_batch
              /\ hist[id].robots_calls = 0
              /\ pc[id] \in {"fetching", "progress_batch", "update_cancelled", "end"}
              /\ pc[id] = "end" => JOBS[id].status = "cancelled"

\* the flag was set during the first of two batches and the job ended cancelled
\* after one run_quick_audit call
C11_Witness ==
    \E id \in JobIds :
        /\ hist[id].cancel_batch = 1
        /\ hist[id].batches_done = 1
        /\ JOBS[id].status = "cancelled"
        /\ pc[id] = "end"

\* C12: when the validation of a background job collected several messages, the
\* error field of the job, which is what the status poll shows, carries every
\* one of them
C12_AllValidationMessagesSurfaced ==
    \A id \in JobIds :
        /\ pc[id] = "update_error" /\ phase[id] = "eta"
        /\ exc[id].kind = "AppError"
        => \A i \in DOMAIN exc[id].details :
              \E j \in DOMAIN JOBS[id].error : JOBS[id].error[j] = exc[id].details[i]

\* C13: after an unexpected exception in a background job the message and error
\* fields of the job, and of every poll reply, hold only the generic failure
\* text and the generated log id, whatever the text of the exception was
C13_NoExceptionDetailInJob ==
    \A id \in JobIds :
        /\ hist[id].failed = "unexpected" /\ JOBS[id].status = "error" =>
              /\ JOBS[id].message = "Analiz tamamlanamadi."
              /\ JOBS[id].log_id \in LogIds
              /\ JOBS[id].error =
                    <<"Beklenmeyen bir hata olustu.", " (Hata kodu: ", JOBS[id].log_id, ")">>
              /\ \A j \in DOMAIN JOBS[id].error : JOBS[id].error[j] \notin ExcTexts
        /\ /\ hist[id].failed = "unexpected"
           /\ out.op = "status" /\ out.status = "ok" /\ out.id = id
           /\ out.payload.job.status = "error"
           => /\ out.payload.job.message = "Analiz tamamlanamadi."
              /\ out.payload.job.error =
                    <<"Beklenmeyen bir hata olustu.", " (Hata kodu: ", out.payload.job.log_id, ")">>

\* a poll has just shown the error of a job that failed with an unexpected exception
C13_Witness ==
    \E id \in JobIds :
        /\ hist[id].failed = "unexpected"
        /\ out.op = "status" /\ out.status = "ok" /\ out.id = id
        /\ out.payload.job.status = "error"
        /\ out.payload.job.log_id = "e5f6a7b8"

\* C14: match_urls returns one result per old row, the i-th result for the i-th
\* old URL, also when old URLs repeat or no new URL is a usable candidate
C14_OneResultPerOldRow ==
    call.fn = "match_urls" /\ call.returned =>
        /\ Len(call.results) = Len(call.old_rows)
        /\ \A i \in DOMAIN call.old_rows : call.results[i].old_url = call.old_rows[i].url

\* the same old URL twice, matched by path the first time and the second
C14_Witness ==
    /\ call.fn = "match_urls" /\ call.returned
    /\ Len(call.old_rows) = 2
    /\ call.old_rows[1] = call.old_rows[2]
    /\ Len(call.results) = 2
    /\ call.results[2].reason = "exact_path"

\* C15: an old URL whose normal form is the normal form of some new URL gets
\* score 100 and reason exact_url, and a new_url of that normal form; the rule
\* comes before exact_path and slug similarity
C15_ExactUrl ==
    call.fn = "match_urls" /\ call.returned =>
        \A i \in DOMAIN call.old_rows :
            (\E j \in DOMAIN call.new_rows :
                normalize_url(call.old_rows[i].url) = normalize_url(call.new_rows[j].url))
            => /\ i \in DOMAIN call.results
               /\ call.results[i].score = 100
               /\ call.results[i].reason = "exact_url"
               /\ normalize_url(call.results[i].new_url) = normalize_url(call.old_rows[i].url)

\* an old URL matched exactly with a new URL that is written differently
C15_Witness ==
    /\ call.fn = "match_urls" /\ call.returned
    /\ \E i \in DOMAIN call.results :
          /\ call.results[i].reason = "exact_url"
          /\ call.results[i].new_url # call.results[i].old_url

\* C16: the score of a result is 0 or in 60..100; it is 0 exactly when the
\* reason is manual_required, which is exactly when new_url is empty
C16_ScoreRange ==
    call.fn = "match_urls" /\ call.returned =>
        \A i \in DOMAIN call.results :
            LET r == call.results[i]
            IN  /\ r.score \in {0} \cup (60 .. 100)
                /\ r.score = 0 <=> r.reason = "manual_required"
                /\ r.reason = "manual_required" <=> r.new_url = EmptyUrl

\* one old URL accepted at exactly 60, another sent to manual review although
\* there was a candidate
C16_Witness ==
    /\ call.fn = "match_urls" /\ call.returned
    /\ call.new_rows # << >>
    /\ \E i, j \in DOMAIN call.results :
          /\ call.results[i].score = 60 /\ call.results[i].reason = "slug_similarity"
          /\ call.results[j].reason = "manual_required"

\* C17: the list that discover_site_urls returns, whatever the sitemaps, the
\* links, the redirects and the failures were and whatever the cap is, repeats
\* no URL, is no longer than the cap, and holds only URLs of the host of the
\* site root whose path neither ends in an excluded extension nor holds an
\* excluded path part
C17_DiscoveredUrls ==
    (call.fn = "discover_site_urls" /\ call.returned) =>
        /\ Len(call.results) <= call.limit
        /\ \A i, j \in DOMAIN call.results :
              i # j => call.results[i] # call.results[j]
        /\ \A i \in DOMAIN call.results :
              LET url == call.results[i]
                  last == IF url.slash \/ url.slug = << >> THEN ""
                          ELSE lower(url.slug[Len(url.slug)])
                  segments == lower_seq(url.dirs)
                                  \o (IF url.slash /\ Len(url.slug) = 1
                                      THEN lower_seq(url.slug) ELSE << >>)
              IN  /\ lower(url.netloc) = lower(call.site_url.netloc)
                  /\ last \notin EXCLUDED_EXTENSIONS
                  /\ ~\E k \in DOMAIN segments : segments[k] \in {"build", "assets"}

\* a sitemap gave one page, fewer than the cap, and the crawl added the site root
C17_Witness ==
    /\ call.fn = "discover_site_urls"
    /\ call.returned
    /\ call.limit = 2
    /\ call.results = <<Url("site.com", << >>, <<"a">>, FALSE, ""),
                        ensure_site_url(SiteUrl)>>

\* C18: run_quick_audit on a list that holds N distinct URLs, however often
\* each is repeated, fetches every distinct URL exactly once and returns
\* exactly N entries, one for every distinct URL
C18_OneFetchPerDistinctUrl ==
    call.fn = "run_quick_audit" =>
        LET distinct == {call.urls[i] : i \in DOMAIN call.urls}
        IN  /\ \A u \in AuditUrlSet : call.fetches[u] <= 1
            /\ call.returned =>
                  /\ \A u \in AuditUrlSet :
                        call.fetches[u] = (IF u \in distinct THEN 1 ELSE 0)
                  /\ Len(call.value) = Cardinality(distinct)
                  /\ \A u \in distinct :
                        Cardinality({i \in DOMAIN call.value : call.value[i].url = u}) = 1

\* run_quick_audit has returned for a list of three URLs, two of them distinct
C18_Witness ==
    /\ call.fn = "run_quick_audit"
    /\ call.returned
    /\ Len(call.urls) = 3
    /\ Cardinality({call.urls[i] : i \in DOMAIN call.urls}) = 2
    /\ Len(call.value) = 2

\* C19: the list that run_quick_audit returns is in ascending order of
\* (severity rank, url), critical before warning before info, and is the one
\* list in that order of the results of the distinct URLs, so the same for
\* every order in which the fetches complete
C19_SortedWhateverTheOrder ==
    (call.fn = "run_quick_audit" /\ call.returned) =>
        LET distinct == {call.urls[i] : i \in DOMAIN call.urls}
            rank(entry) == CASE entry.severity = "critical" -> 0
                             [] entry.severity = "warning" -> 1
                             [] entry.severity = "info" -> 2
            before(x, y) == \/ rank(x) < rank(y)
                            \/ rank(x) = rank(y) /\ url_order(x.url) < url_order(y.url)
        IN  /\ \A i, j \in DOMAIN call.value :
                  i < j => before(call.value[i], call.value[j])
            /\ {call.value[i] : i \in DOMAIN call.value}
                   = {audit_single_url(u, call.site[u]) : u \in distinct}

\* three fetches completed in an order that is not the order of the returned
\* list, which runs from a critical entry to an info entry
C19_Witness ==
    /\ call.fn = "run_quick_audit"
    /\ call.returned
    /\ Len(call.value) = 3
    /\ call.results # call.value
    /\ call.value[1].severity = "critical"
    /\ call.value[2].severity = "warning"
    /\ call.value[3].severity = "info"

\* C20: for every URL whose request was answered, the severity is critical if
\* the issue tags include 5xx or 404, else warning if they include 4xx,
\* noindex or canonical_mismatch, else info (so the tag redirected changes
\* nothing), and an answer with HTTP status 404 carries the tag 404 and the
\* severity critical whatever other tags there are
C20_SeverityOfFetched ==
    (call.fn = "audit_single_url" /\ call.returned /\ ~call.response.failed) =>
        LET tags == {call.result.issues[i] : i \in DOMAIN call.result.issues}
        IN  /\ call.result.severity =
                  (IF tags \intersect {"5xx", "404"} # {} THEN "critical"
                   ELSE IF tags \intersect {"4xx", "noindex", "canonical_mismatch"} # {}
                   THEN "warning"
                   ELSE "info")
            /\ call.response.status_code = 404 =>
                  "404" \in tags /\ call.result.severity = "critical"

\* C21: a request that fails at transport while one URL is audited aborts
\* nothing: run_quick_audit returns, that URL has a result with severity
\* critical, status_code "0" and an issue that starts with request_error, and
\* every other URL of the batch has its own result
C21_TransportFailureIsOneResult ==
    (call.fn = "run_quick_audit" /\ call.returned) =>
        \A u \in {call.urls[i] : i \in DOMAIN call.urls} :
            \E i \in DOMAIN call.value :
                /\ call.value[i].url = u
                /\ call.site[u].failed =>
                      /\ call.value[i].severity = "critical"
                      /\ call.value[i].status_code = "0"
                      /\ call.value[i].issues # << >>
                      /\ call.value[i].issues[1] = "request_error"
                /\ ~call.site[u].failed =>
                      call.value[i].status_code = status_text(call.site[u].status_code)

\* three URLs were audited, the request for one of them failed, and the other
\* two have the result of their answer
C21_Witness ==
    /\ call.fn = "run_quick_audit"
    /\ call.returned
    /\ Len(call.value) = 3
    /\ Cardinality({u \in AuditUrlSet : call.site[u].failed}) = 1
    /\ \E i \in DOMAIN call.value : call.value[i].status_code = "0"
    /\ \E i \in DOMAIN call.value : call.value[i].status_code = "404"
    /\ \E i \in DOMAIN call.value : call.value[i].status_code = "200"

\* C22: for every match and two metric snapshots that are not empty, the
\* comparison status is that of the first rule that applies: score < 70 gives
\* manual_gerekli whatever the metrics; else before.clicks = 0 and
\* after.clicks > 0 gives yeni_toparlaniyor; else after.clicks >= 0.9 *
\* before.clicks or after.position <= before.position + 0.3 gives
\* toparlaniyor; else duzeltildi_ama_toparlanmadi; and exactly the rows of the
\* last status are in the unresolved list, with lost_clicks = before.clicks -
\* after.clicks
C22_ComparisonStatus ==
    (call.fn = "build_comparison_rows" /\ call.returned
        /\ call.snapshots.before /\ call.snapshots.after) =>
        /\ Len(call.rows) = Len(call.matches)
        /\ \A i \in DOMAIN call.rows :
              LET row == call.rows[i]
                  expected ==
                      IF row.score < 70 THEN "manual_gerekli"
                      ELSE IF row.before_clicks = 0 /\ row.after_clicks > 0
                      THEN "yeni_toparlaniyor"
                      ELSE IF \/ 10 * row.after_clicks >= 9 * row.before_clicks
                              \/ row.after_position <= row.before_position + 3
                      THEN "toparlaniyor"
                      ELSE "duzeltildi_ama_toparlanmadi"
              IN  /\ row.status = expected
                  /\ (expected = "duzeltildi_ama_toparlanmadi") <=>
                        \E k \in DOMAIN call.unresolved :
                            call.unresolved[k] =
                                [row EXCEPT !.lost_clicks =
                                               row.before_clicks - row.after_clicks]
        /\ \A k \in DOMAIN call.unresolved :
              call.unresolved[k].status = "duzeltildi_ama_toparlanmadi"

\* C23: for every list of comparison rows that is not empty the recovery panel
\* has the three horizons day 7, 14 and 30 with the rates min(100, base + 5),
\* min(100, base + 10), min(100, base + 18), base being 100 * recovering /
\* total rounded to an integer; so the day-30 rate is at least the day-14
\* rate, that at least the day-7 rate, that at least base, and every rate is
\* in 0..100
C23_RecoveryPanel ==
    (call.fn = "build_recovery_panel" /\ call.returned /\ call.comparison_rows # << >>) =>
        LET total == Len(call.comparison_rows)
            recovering_count ==
                Cardinality({i \in DOMAIN call.comparison_rows :
                    call.comparison_rows[i].status \in {"toparlaniyor", "yeni_toparlaniyor"}})
            rate(k) == call.panels[k].recovery_rate
        IN  /\ Len(call.panels) = 3
            /\ <<call.panels[1].day, call.panels[2].day, call.panels[3].day>> = <<7, 14, 30>>
            /\ \E base \in 0 .. 100 :
                  /\ 2 * (100 * recovering_count - base * total) <= total
                  /\ 2 * (base * total - 100 * recovering_count) <= total
                  /\ rate(1) = (IF base + 5 < 100 THEN base + 5 ELSE 100)
                  /\ rate(2) = (IF base + 10 < 100 THEN base + 10 ELSE 100)
                  /\ rate(3) = (IF base + 18 < 100 THEN base + 18 ELSE 100)
                  /\ base <= rate(1)
            /\ rate(1) <= rate(2)
            /\ rate(2) <= rate(3)
            /\ \A k \in 1 .. 3 : rate(k) \in 0 .. 100

\* five of six rows recover: base is 83 and only the day-30 rate meets the cap
C23_Witness ==
    /\ call.fn = "build_recovery_panel"
    /\ call.returned
    /\ Len(call.comparison_rows) = 6
    /\ Len(call.panels) = 3
    /\ call.panels[1].recovery_rate = 88
    /\ call.panels[2].recovery_rate = 93
    /\ call.panels[3].recovery_rate = 100

\* C24: when the audit of a job covers more than one batch of 40 URLs, with or
\* without the site-level check, the final list of audit results is in
\* ascending order of (severity rank, url) as a whole
C24_FinalListSorted ==
    (call.fn = "audit_stage" /\ call.returned /\ call.batches > 1) =>
        \A i, j \in DOMAIN call.audit_results :
            i < j =>
                LET x == call.audit_results[i]
                    y == call.audit_results[j]
                IN  \/ severity_rank(x.severity) < severity_rank(y.severity)
                    \/ /\ severity_rank(x.severity) = severity_rank(y.severity)
                       /\ url_order(x.url) <= url_order(y.url)

\* C25: within one job no URL is fetched twice by the audit and the audit
\* results hold at most one result for every distinct URL, also when a URL
\* occurs in two batches of 40
C25_NoUrlAuditedTwice ==
    call.fn = "audit_stage" =>
        /\ \A u \in AuditUrlSet : call.fetches[u] <= 1
        /\ call.returned =>
              \A i, j \in DOMAIN call.audit_results :
                  (i # j /\ call.audit_results[i].url \in AuditUrlSet)
                      => call.audit_results[i].url # call.audit_results[j].url

\* C26: in the audit loop at most 8 fetches are in flight at any moment, and
\* outside of run_quick_audit (at the checkpoint ahead of a batch, at the
\* progress update behind it, in the comparison stage and once the job is
\* terminal) no fetch is in flight, none is queued and none is left to submit
C26_AtMostEightInFlight ==
    call.fn = "audit_loop" =>
        /\ call.running <= 8
        /\ call.stage # "pool" =>
              call.running = 0 /\ call.queued = 0 /\ call.to_submit = 0
        /\ call.status \in Terminal => call.running = 0

\* eight fetches are in flight while a ninth work item waits in the queue
C26_Witness ==
    /\ call.fn = "audit_loop"
    /\ call.running = 8
    /\ call.queued > 0

\* C27: fetch_sitemap_urls requests no sitemap URL twice; a request that fails
\* or answers with a status of 400 or more adds nothing to the URLs found and
\* leaves the rest of the queue to the next turn; and the traversal ends,
\* whatever the sitemaps name, themselves and each other included
C27_SitemapTraversal ==
    /\ [](call.fn = "discover_site_urls" /\ call.stage = "sitemaps" =>
             \A i, j \in DOMAIN call.requests :
                 i # j => call.requests[i].url # call.requests[j].url)
    /\ [][(/\ call.fn = "discover_site_urls"
           /\ call.stage = "sitemaps"
           /\ Len(call'.requests) = Len(call.requests) + 1
           /\ LET status_code == call'.requests[Len(call'.requests)].status_code
              IN  status_code = 0 \/ status_code >= 400)
          => /\ call'.stage = "sitemaps"
             /\ call'.found = call.found
             /\ call'.queue = Tail(call.queue)]_vars
    /\ <>(call.fn = "discover_site_urls" /\ call.stage # "sitemaps")

\* both sitemaps were requested, the first naming the second and itself, the
\* second answering 404, and the queue still holds the first one again
C27_Witness ==
    /\ call.fn = "discover_site_urls"
    /\ call.stage = "sitemaps"
    /\ Len(call.requests) = 2
    /\ call.requests[1].status_code = 200
    /\ call.requests[2].status_code = 404
    /\ call.queue = <<call.requests[1].url>>

\* C28: crawl_internal_links calls client.get for no two URLs of one normalized
\* form, and for no URL whose normalized form is that of the final URL of an
\* earlier answer that was kept (same host, status below 400); and the crawl
\* ends, with a list or with the exception of a link that cannot be parsed
C28_CrawlRequests ==
    /\ [](call.fn = "discover_site_urls" /\ call.stage = "crawl" =>
             \A i, j \in DOMAIN call.requests :
                 i < j =>
                     LET earlier == call.requests[i]
                         later == call.requests[j]
                     IN  /\ normalize_url(later.url) # normalize_url(earlier.url)
                         /\ (/\ earlier.status_code # 0
                             /\ earlier.status_code < 400
                             /\ is_same_domain(earlier.final_url, call.base))
                                => normalize_url(later.url)
                                       # normalize_url(earlier.final_url))
    /\ [][(/\ call.fn = "discover_site_urls"
           /\ call.stage = "crawl"
           /\ Len(call'.requests) = Len(call.requests) + 1)
          => normalize_url(Head(call.queue)) \notin call.visited]_vars
    /\ <>(call.fn = "discover_site_urls" /\ call.stage \in {"returned", "raised"})

\* the site root was requested and its page linked to /a and /b; /a was
\* requested and answered from /b after a redirect; /b is next in the queue
C28_Witness ==
    /\ call.fn = "discover_site_urls"
    /\ call.stage = "crawl"
    /\ Len(call.requests) = 2
    /\ call.requests[2].status_code = 200
    /\ normalize_url(call.requests[2].final_url) # normalize_url(call.requests[2].url)
    /\ call.queue # << >>
    /\ normalize_url(Head(call.queue)) = normalize_url(call.requests[2].final_url)
    /\ Len(call.found) < call.limit

\* C29: an annotated result of a failed request carries the text of the
\* transport error, and an annotated result for a URL ending in /sitemap.xml
\* with status 404 carries the cause and fix of the missing sitemap, whichever
\* of the auditor and the site-level check produced it
C29_SitemapAnnotation ==
    (call.fn = "annotate_audit_items" /\ call.returned) =>
        \A i \in DOMAIN call.value :
            LET item == call.value[i]
            IN  /\ has_issue(item, "request_error") =>
                      /\ item.cause = "Sunucuya baglanti kurulamadi veya zaman asimi olustu."
                      /\ item.fix = "Domain/DNS/SSL erisimini kontrol et. Hosting aktif mi bak. Sonra tekrar tarama yap."
                /\ (/\ ends_with_sitemap_xml(item.url)
                    /\ item.status_code = "404"
                    /\ ~has_issue(item, "request_error")) =>
                      /\ item.cause = "Sitemap dosyasi bulunamiyor."
                      /\ item.fix = "Dogru domaini primary olarak ayarla. Ardindan /sitemap.xml aciliyor mu kontrol et ve Search Console'a gonder."

\* C30: the record of a job starts with progress 5, and no step of the worker
\* or of a request handler lowers the progress of a job
C30_ProgressNeverDecreases ==
    [][\A id \in JobIds :
          /\ (JOBS[id] = NoJob /\ JOBS'[id] # NoJob) => JOBS'[id].progress = 5
          /\ (JOBS[id] # NoJob /\ JOBS'[id] # NoJob) =>
                 JOBS'[id].progress >= JOBS[id].progress]_vars

\* a job found its URLs by the crawl and has written the progress of its
\* second audit batch
C30_Witness ==
    \E id \in JobIds :
        /\ JOBS[id].status = "running"
        /\ loc[id].analysis_mode = "scan"
        /\ hist[id].batches_done = 2
        /\ JOBS[id].progress = 85

\* C31: no step clears a cancel_requested flag that is set; and a job whose
\* status is done has the flag set only if the cancel request that first set
\* it was accepted after the cancel() of line 447 had let the worker pass
C31_CancelFlagAndDone ==
    /\ [](\A id \in JobIds :
             (JOBS[id] # NoJob /\ JOBS[id].status = "done" /\ JOBS[id].cancel_requested)
                 => hist[id].cancel_late)
    /\ [][\A id \in JobIds :
             (JOBS[id] # NoJob /\ JOBS[id].cancel_requested)
                 => (JOBS'[id] # NoJob /\ JOBS'[id].cancel_requested)]_vars

\* a cancel request was accepted while the comparison was assembled or the
\* package stored, and the job ended done with the flag set
C31_Witness ==
    \E id \in JobIds :
        /\ JOBS[id].status = "done"
        /\ JOBS[id].cancel_requested
        /\ hist[id].cancel_late
        /\ pc[id] = "end"

\* C32: whenever the status of a job is done, in the record or in the answer
\* to a status poll, RESULTS holds the package of that job, stored under its
\* id; a request for the result of a job that is done is answered with it
C32_DoneHasResult ==
    /\ \A id \in JobIds :
          (JOBS[id] # NoJob /\ JOBS[id].status = "done") =>
              /\ RESULTS[id].stored
              /\ RESULTS[id].context.job_id = id
              /\ RESULTS[id].context.run_audit = hist[id].run_audit
    /\ (out.op = "status" /\ out.status = "ok" /\ out.payload.job.status = "done") =>
          /\ RESULTS[out.id].stored
          /\ out.payload.result_url = <<"/result/", out.id>>
    /\ (out.op = "result" /\ JOBS[out.id] # NoJob /\ JOBS[out.id].status = "done") =>
          /\ out.status = "ok"
          /\ out.context = RESULTS[out.id].context

\* the result page of a job that is done was requested and answered
C32_Witness ==
    /\ out.op = "result"
    /\ out.status = "ok"
    /\ JOBS[out.id].status = "done"
    /\ out.context.job_id = out.id

\* C33: a job that analyze_start created comes to status done, error or
\* cancelled, whatever cancel requests and status polls arrive, and keeps
\* the status it came to
C33_JobTerminates ==
    /\ \A id \in JobIds :
          (JOBS[id] # NoJob) ~> (JOBS[id] # NoJob /\ JOBS[id].status \in Terminal)
    /\ [][\A id \in JobIds :
             (JOBS[id] # NoJob /\ JOBS[id].status \in Terminal)
                 => (JOBS'[id] # NoJob /\ JOBS'[id].status = JOBS[id].status)]_vars

\* a job with two audit batches was polled and asked to cancel during its
\* second batch, and its thread has ended
C33_Witness ==
    \E id \in JobIds :
        /\ pc[id] = "end"
        /\ JOBS[id].status = "cancelled"
        /\ hist[id].cancel_batch = 2
        /\ hist[id].batches_done = 2

\* C34: normalizing a normalized URL changes nothing, a normalized path ends
\* in "/" only if it is "/", and URLs that differ only in trailing slashes,
\* query and fragment have one normalized form
C34_CanonicalKey ==
    (call.fn = "normalize_url" /\ call.returned) =>
        /\ call.twice = call.once
        /\ call.once.path = <<"/">> \/ call.once.path[Len(call.once.path)] # "/"
        /\ same_but_for_tail(call.url, call.other) => call.other_once = call.once

====
